---------------------------- MODULE Spec2Model ----------------------------
(***************************************************************************)
(* A model of the token-ring library (NiklasVd/token-ring): the active     *)
(* station (monitor), its token passer, the passive stations and the       *)
(* datagram plumbing between them.                                         *)
(*                                                                         *)
(* Station ids and socket addresses are small integers.  Passive station p *)
(* has id p and listens on address p; the monitor has id and address 0.    *)
(* Time is counted in ticks; a TokenState keeps the ticks elapsed since    *)
(* the token was sent instead of the Instant it was sent at, which is all  *)
(* the code ever reads of it (Instant::now().duration_since(send_time)).   *)
(***************************************************************************)
EXTENDS Integers, Sequences, FiniteSets, TLC

\* ------------------------------------------------------------------ bounds
NumStations == 2       \* passive station processes
MaxQueue == 1          \* capacity of every modelled queue
MaxFrames == 1         \* frames the applications stage over a run
MaxPassoverTime == 1   \* GlobalConfig.max_passover_time, in ticks
MaxConnections == 2    \* GlobalConfig.max_connections
MaxForeign == 1        \* datagrams sent by the host outside the ring
MaxPasses == 2         \* cap of the per-round pass counter

Stations == 1..NumStations
MonitorId == 0
MonitorAddr == 0
ForeignAddr == NumStations + 1

Password == "hunter2"
WrongPassword == "wrong"
AcceptConnections == TRUE

VARIABLES
    active,        \* the ActiveStation (with its TokenPasser)
    passive,       \* the PassiveStation of every station process
    hash_order,    \* iteration order of the station_status HashMap
    insertion,     \* history: member ids in the order they were inserted
    passes,        \* history: passes to each station since the last reset
    foreign_sent,  \* datagrams the foreign host has sent so far
    frames_staged, \* frames the applications have staged so far
    draining,      \* the application task is inside recv_all's loop
    sender,        \* where the monitor's send_loop stands
    receiver,      \* the monitor's recv_loop: where it stands, and its socket
    codec,         \* a value on its way through write and read
    ev             \* the last operation, its result and its subject

vars == <<active, passive, hash_order, insertion, passes, foreign_sent,
          frames_staged, draining, sender, receiver, codec, ev>>

\* ------------------------------------------------------------ small helpers
None == <<>>
Some(x) == <<x>>
IsSome(o) == o /= <<>>
Unwrap(o) == o[1]

RECURSIVE Perms(_)
Perms(S) ==
    IF S = {} THEN {<<>>}
    ELSE UNION {{<<x>> \o p : p \in Perms(S \ {x})} : x \in S}

RECURSIVE Filter(_, _)
Filter(s, S) ==
    IF s = <<>> THEN <<>>
    ELSE IF s[1] \in S THEN <<s[1]>> \o Filter(Tail(s), S)
    ELSE Filter(Tail(s), S)


\* ------------------------------------------------------- signature.rs
\* An Ed25519 signature is modelled by what it binds: the signing key and the
\* signed bytes.  verify() checks the stored signature against the stored key
\* and the stored bytes, nothing else.
Signed(keypair, val) ==
    [key |-> keypair, val |-> val, signature |-> <<keypair, val>>]

Verify(s) == s.signature = <<s.key, s.val>>

Corrupted(s) == [s EXCEPT !.signature = <<s.key, s.val + 100>>]

\* ------------------------------------------------------- token.rs
\* TokenHeader{origin, timestamp}: the timestamp is never read by the protocol.
TokenHeader(origin) == origin

Token(header) == [header |-> header, frames |-> <<>>]

TokenFrame(source, content) == [source |-> source, content |-> content]

\* ------------------------------------------------------- packet.rs
JoinRequest(pw) ==
    [type |-> "JoinRequest", pw |-> pw, result |-> "", reason |-> "", id |-> 0,
     token |-> None]
JoinReplyConfirm(id) ==
    [type |-> "JoinReply", pw |-> "", result |-> "Confirm", reason |-> "",
     id |-> id, token |-> None]
JoinReplyDeny(reason) ==
    [type |-> "JoinReply", pw |-> "", result |-> "Deny", reason |-> reason,
     id |-> 0, token |-> None]
TokenPass(token) ==
    [type |-> "TokenPass", pw |-> "", result |-> "", reason |-> "", id |-> 0,
     token |-> Some(token)]
Leave ==
    [type |-> "Leave", pw |-> "", result |-> "", reason |-> "", id |-> 0,
     token |-> None]

PacketHeader(source) == source

Packet(header, content) == [header |-> header, content |-> content]

\* comm.rs: QueuedPacket(Packet, SocketAddr)
QueuedPacket(packet, addr) == [packet |-> packet, addr |-> addr]

\* ------------------------------------------------------- pass.rs
TokenState(id, elapsed) == [id |-> id, elapsed |-> elapsed]

\* HashMap::iter() over station_status: the members in the order the hasher
\* of this run happens to give them.
IterOrder(tp) == Filter(hash_order, DOMAIN tp.station_status)

NewTokenPasser ==
    [curr_token |-> None, state |-> None, pass_mode |-> "Idle",
     station_status |-> <<>>]

Elapsed(tp) == Unwrap(tp.state).elapsed

\* Mutant of PassReady: the passover timeout never makes the passer ready.
PassReadyNoTimeout(tp) ==
    IF IsSome(tp.state)
    THEN tp.pass_mode = "Received"
    ELSE TRUE

PassReady(tp) ==
    IF IsSome(tp.state)
    THEN IF tp.pass_mode = "Received" THEN TRUE
         ELSE Elapsed(tp) >= MaxPassoverTime
    ELSE TRUE

\* Mutant of CheckTokenValidity: the header's signature is not looked at.
CheckTokenValidityNoSignature(tp, token, sender_id) ==
    /\ IsSome(tp.state)
    /\ Elapsed(tp) <= MaxPassoverTime
    /\ sender_id = Unwrap(tp.state).id

CheckTokenValidity(tp, token, sender_id) ==
    /\ IsSome(tp.state)
    /\ Elapsed(tp) <= MaxPassoverTime
    /\ Verify(token.header)
    /\ sender_id = Unwrap(tp.state).id

\* Mutant of RecvToken: only a valid token ticks its sender off and sets
\* the mode.
RecvTokenValidOnly(tp, new_token, sender_id) ==
    IF sender_id \in DOMAIN tp.station_status
    THEN IF CheckTokenValidity(tp, new_token, sender_id)
         THEN [tp |-> [tp EXCEPT !.station_status[sender_id] = TRUE,
                                !.pass_mode = "Received",
                                !.curr_token = Some(new_token)],
               res |-> "Ok"]
         ELSE [tp |-> tp, res |-> "InvalidToken"]
    ELSE [tp |-> tp, res |-> "InvalidToken"]

\* Mutant of RecvToken: the sender is not marked as having held the token.
RecvTokenNoMark(tp, new_token, sender_id) ==
    IF sender_id \in DOMAIN tp.station_status
    THEN LET tp1 == [tp EXCEPT !.pass_mode = "Received"]
         IN  IF CheckTokenValidity(tp1, new_token, sender_id)
             THEN [tp |-> [tp1 EXCEPT !.curr_token = Some(new_token)], res |-> "Ok"]
             ELSE [tp |-> tp1, res |-> "InvalidToken"]
    ELSE [tp |-> tp, res |-> "InvalidToken"]

RecvToken(tp, new_token, sender_id) ==
    IF sender_id \in DOMAIN tp.station_status
    THEN LET tp1 == [tp EXCEPT !.station_status[sender_id] = TRUE,
                               !.pass_mode = "Received"]
         IN  IF CheckTokenValidity(tp1, new_token, sender_id)
             THEN [tp |-> [tp1 EXCEPT !.curr_token = Some(new_token)], res |-> "Ok"]
             ELSE [tp |-> tp1, res |-> "InvalidToken"]
    ELSE [tp |-> tp, res |-> "InvalidToken"]

\* Mutant of PassToken: the passer's mode is left as it was.
PassTokenKeepsMode(tp, to_id) ==
    [tp EXCEPT !.state = Some(TokenState(to_id, 0))]

PassToken(tp, to_id) ==
    [tp EXCEPT !.state = Some(TokenState(to_id, 0)), !.pass_mode = "Passed"]

NotHeld(tp) == {i \in DOMAIN tp.station_status : ~tp.station_status[i]}

SelectNextStation(tp) ==
    IF DOMAIN tp.station_status = {}
    THEN [tp |-> tp, next |-> None]
    ELSE LET order == IterOrder(tp)
             not_held == Filter(order, NotHeld(tp))
         IN  IF not_held /= <<>>
             THEN [tp |-> PassToken(tp, not_held[1]), next |-> Some(not_held[1])]
             ELSE LET reset == [tp EXCEPT !.station_status =
                                    [i \in DOMAIN tp.station_status |-> FALSE]]
                      last == order[Len(order)]
                  IN  [tp |-> PassToken(reset, last), next |-> Some(last)]

\* ------------------------------------------------------- station.rs: ActiveStation
Host ==
    [connected_stations |-> <<>>, token_passer |-> NewTokenPasser,
     send_queue |-> <<>>, recv_queue |-> <<>>, running |-> TRUE]

ActiveSendPacket(s, dest_addr, content) ==
    [s EXCEPT !.send_queue = Append(@,
        QueuedPacket(Packet(Signed(MonitorAddr, PacketHeader(MonitorId)), content),
                     dest_addr))]

GetStationAddr(s, id) ==
    IF id \in DOMAIN s.connected_stations
    THEN Some(s.connected_stations[id]) ELSE None

\* Mutant of CheckJoinRequest: the membership count is not compared.
CheckJoinRequestNoLimit(s, join_id, pw) ==
    IF ~AcceptConnections THEN "RejectedJoinAttempt"
    ELSE IF Password /= pw THEN "RejectedJoinAttempt"
    ELSE "Ok"

\* Mutant of CheckJoinRequest: the password is not compared.
CheckJoinRequestNoPassword(s, join_id, pw) ==
    IF ~AcceptConnections THEN "RejectedJoinAttempt"
    ELSE IF Cardinality(DOMAIN s.connected_stations) >= MaxConnections
         THEN "RejectedJoinAttempt"
    ELSE "Ok"

CheckJoinRequest(s, join_id, pw) ==
    IF ~AcceptConnections THEN "RejectedJoinAttempt"
    ELSE IF Cardinality(DOMAIN s.connected_stations) >= MaxConnections
         THEN "RejectedJoinAttempt"
    ELSE IF Password /= pw THEN "RejectedJoinAttempt"
    ELSE "Ok"

\* Mutant of AddStation: an overwrite clears the id's held flag.
AddStationClearsFlag(s, id, addr) ==
    IF id \in DOMAIN s.connected_stations
    THEN [s EXCEPT !.connected_stations[id] = addr,
                   !.token_passer.station_status[id] = FALSE]
    ELSE [s EXCEPT !.connected_stations = (id :> addr) @@ @,
                   !.token_passer.station_status = (id :> FALSE) @@ @]

\* Mutant of AddStation: a new id gets no rotation-status entry.
AddStationNoStatus(s, id, addr) ==
    IF id \in DOMAIN s.connected_stations
    THEN [s EXCEPT !.connected_stations[id] = addr]
    ELSE [s EXCEPT !.connected_stations = (id :> addr) @@ @]

\* Mutant of AddStation: a new id's status entry starts as held.
AddStationHeld(s, id, addr) ==
    IF id \in DOMAIN s.connected_stations
    THEN [s EXCEPT !.connected_stations[id] = addr]
    ELSE [s EXCEPT !.connected_stations = (id :> addr) @@ @,
                   !.token_passer.station_status = (id :> TRUE) @@ @]

AddStation(s, id, addr) ==
    IF id \in DOMAIN s.connected_stations
    THEN [s EXCEPT !.connected_stations[id] = addr]
    ELSE [s EXCEPT !.connected_stations = (id :> addr) @@ @,
                   !.token_passer.station_status = (id :> FALSE) @@ @]

\* Mutant of RemoveStation: the rotation-status entry is left behind.
RemoveStationKeepsStatus(s, id) ==
    IF id \in DOMAIN s.connected_stations
    THEN [s EXCEPT !.connected_stations =
                       [i \in DOMAIN @ \ {id} |-> @[i]]]
    ELSE s

RemoveStation(s, id) ==
    IF id \in DOMAIN s.connected_stations
    THEN [s EXCEPT !.connected_stations =
                       [i \in DOMAIN @ \ {id} |-> @[i]],
                   !.token_passer.station_status =
                       [i \in DOMAIN @ \ {id} |-> @[i]]]
    ELSE s

\* Mutant of RecvJoinRequest: a second join from the same address is not
\* told apart.
RecvJoinRequestTwice(s, join_addr, join_id, pw) ==
    IF CheckJoinRequest(s, join_id, pw) /= "Ok"
    THEN [s |-> ActiveSendPacket(s, join_addr, JoinReplyDeny("Invalid config")),
          res |-> "RejectedJoinAttempt"]
    ELSE [s |-> AddStation(
                    ActiveSendPacket(s, join_addr, JoinReplyConfirm(MonitorId)),
                    join_id, join_addr),
          res |-> "Ok"]

RecvJoinRequest(s, join_addr, join_id, pw) ==
    IF IsSome(GetStationAddr(s, join_id))
       /\ Unwrap(GetStationAddr(s, join_id)) = join_addr
    THEN [s |-> ActiveSendPacket(s, join_addr, JoinReplyDeny("Already joined")),
          res |-> "RejectedJoinAttempt"]
    ELSE IF CheckJoinRequest(s, join_id, pw) /= "Ok"
    THEN [s |-> ActiveSendPacket(s, join_addr, JoinReplyDeny("Invalid config")),
          res |-> "RejectedJoinAttempt"]
    ELSE [s |-> AddStation(
                    ActiveSendPacket(s, join_addr, JoinReplyConfirm(MonitorId)),
                    join_id, join_addr),
          res |-> "Ok"]

\* Mutant of ActiveRecvTokenPass: the sender's address is not compared.
ActiveRecvTokenPassAnyAddress(s, addr, id, token) ==
    LET r == RecvToken(s.token_passer, token, id)
    IN  [s |-> [s EXCEPT !.token_passer = r.tp], res |-> r.res]

ActiveRecvTokenPass(s, addr, id, token) ==
    IF IsSome(GetStationAddr(s, id)) /\ Unwrap(GetStationAddr(s, id)) /= addr
    THEN [s |-> s, res |-> "InvalidToken"]
    ELSE LET r == RecvToken(s.token_passer, token, id)
         IN  [s |-> [s EXCEPT !.token_passer = r.tp], res |-> r.res]

GenerateToken == Token(Signed(MonitorAddr, TokenHeader(MonitorId)))

\* Mutant of ActivePassOnToken: the token goes to the address the id first
\* joined from, not to the address registered now.
ActivePassOnTokenFirstAddress(s) ==
    LET sel == SelectNextStation(s.token_passer)
    IN  IF ~IsSome(sel.next)
        THEN [s |-> s, res |-> "EmptyRing", to |-> None, minted |-> FALSE]
        ELSE LET next_station == Unwrap(sel.next)
                 s1 == [s EXCEPT !.token_passer = sel.tp]
             IN  IF ~IsSome(GetStationAddr(s1, next_station))
                 THEN [s |-> s1, res |-> "panic", to |-> sel.next, minted |-> FALSE]
                 ELSE LET addr == next_station
                          minted == ~IsSome(s1.token_passer.curr_token)
                          curr_token == IF minted THEN GenerateToken
                                        ELSE Unwrap(s1.token_passer.curr_token)
                          s2 == [s1 EXCEPT !.token_passer =
                                     PassToken(@, next_station)]
                      IN  [s |-> ActiveSendPacket(s2, addr, TokenPass(curr_token)),
                           res |-> "Ok", to |-> sel.next, minted |-> minted]

ActivePassOnToken(s) ==
    LET sel == SelectNextStation(s.token_passer)
    IN  IF ~IsSome(sel.next)
        THEN [s |-> s, res |-> "EmptyRing", to |-> None, minted |-> FALSE]
        ELSE LET next_station == Unwrap(sel.next)
                 s1 == [s EXCEPT !.token_passer = sel.tp]
             IN  IF ~IsSome(GetStationAddr(s1, next_station))
                 THEN [s |-> s1, res |-> "panic", to |-> sel.next, minted |-> FALSE]
                 ELSE LET addr == Unwrap(GetStationAddr(s1, next_station))
                          minted == ~IsSome(s1.token_passer.curr_token)
                          curr_token == IF minted THEN GenerateToken
                                        ELSE Unwrap(s1.token_passer.curr_token)
                          s2 == [s1 EXCEPT !.token_passer =
                                     PassToken(@, next_station)]
                      IN  [s |-> ActiveSendPacket(s2, addr, TokenPass(curr_token)),
                           res |-> "Ok", to |-> sel.next, minted |-> minted]

\* Mutant of PollTokenPass: the pass is made whether the passer is ready or not.
PollTokenPassEager(s) == ActivePassOnToken(s)

PollTokenPass(s) ==
    IF PassReady(s.token_passer)
    THEN ActivePassOnToken(s)
    ELSE [s |-> s, res |-> "TokenPending", to |-> None, minted |-> FALSE]

\* Mutant of RecvLeave: the sender's address is not compared.
RecvLeaveAnyAddress(s, addr, id) ==
    IF IsSome(GetStationAddr(s, id))
    THEN [s |-> RemoveStation(s, id), res |-> "Ok"]
    ELSE [s |-> s, res |-> "StationNotRegistered"]

RecvLeave(s, addr, id) ==
    IF IsSome(GetStationAddr(s, id)) /\ Unwrap(GetStationAddr(s, id)) = addr
    THEN [s |-> RemoveStation(s, id), res |-> "Ok"]
    ELSE [s |-> s, res |-> "StationNotRegistered"]

\* Mutant of VerifyRecvPacket: the envelope signature is not verified.
VerifyRecvPacketNoSignature(s, qp) ==
    IF qp.packet.content.type = "JoinRequest" THEN "Ok"
    ELSE IF ~IsSome(GetStationAddr(s, qp.packet.header.val))
         THEN "StationNotRegistered"
         ELSE "Ok"

\* Mutant of VerifyRecvPacket: the source id is not looked up.
VerifyRecvPacketSignatureOnly(s, qp) ==
    IF Verify(qp.packet.header) THEN "Ok" ELSE "InvalidSignature"

VerifyRecvPacket(s, qp) ==
    IF Verify(qp.packet.header)
    THEN IF qp.packet.content.type = "JoinRequest" THEN "Ok"
         ELSE IF ~IsSome(GetStationAddr(s, qp.packet.header.val))
              THEN "StationNotRegistered"
              ELSE "Ok"
    ELSE "InvalidSignature"

\* One iteration of recv_all's while-let loop on the packet just popped.
RecvAllDispatch(s, qp) ==
    LET source_id == qp.packet.header.val
        content == qp.packet.content
    IN  IF VerifyRecvPacket(s, qp) /= "Ok"
        THEN [s |-> s, res |-> VerifyRecvPacket(s, qp)]
        ELSE CASE content.type = "JoinRequest" ->
                      RecvJoinRequest(s, qp.addr, source_id, content.pw)
               [] content.type = "JoinReply" -> [s |-> s, res |-> "Ok"]
               [] content.type = "TokenPass" ->
                      ActiveRecvTokenPass(s, qp.addr, source_id,
                                          Unwrap(content.token))
               [] content.type = "Leave" -> RecvLeave(s, qp.addr, source_id)

\* ------------------------------------------------------- station.rs: PassiveStation
Offline == [mode |-> "Offline", id |-> 0, addr |-> 0]
Pending(addr) == [mode |-> "Pending", id |-> 0, addr |-> addr]
Connected(id, addr) == [mode |-> "Connected", id |-> id, addr |-> addr]

NewPassiveStation ==
    [conn_mode |-> Offline, cached_frames |-> <<>>, curr_token |-> None,
     send_queue |-> <<>>, recv_queue |-> <<>>, running |-> TRUE]

PassiveSendPacketTo(st, p, addr, content) ==
    [st EXCEPT !.send_queue = Append(@,
        QueuedPacket(Packet(Signed(p, PacketHeader(p)), content), addr))]

PassiveSendPacket(st, p, content) ==
    IF st.conn_mode.mode = "Connected"
    THEN [st |-> PassiveSendPacketTo(st, p, st.conn_mode.addr, content),
          res |-> "Ok"]
    ELSE [st |-> st, res |-> "NotConnected"]

PassiveConnect(st, p, addr, pw) ==
    [st |-> [PassiveSendPacketTo(st, p, addr, JoinRequest(pw))
                EXCEPT !.conn_mode = Pending(addr)],
     res |-> "Ok"]

PassiveShutdown(st, p) ==
    LET r == PassiveSendPacket(st, p, Leave)
    IN  IF r.res /= "Ok" THEN r
        ELSE [st |-> [r.st EXCEPT !.running = FALSE, !.conn_mode = Offline],
              res |-> "Ok"]

AppendFrame(st, p, frame) ==
    [st EXCEPT !.cached_frames = Append(@, TokenFrame(p, frame))]

\* Mutant of PassivePassOnToken: the staged frames leave with the held token.
PassivePassOnTokenFlushes(st, p) ==
    IF IsSome(st.curr_token)
    THEN PassiveSendPacket([st EXCEPT !.curr_token = None, !.cached_frames = <<>>],
                           p,
                           TokenPass([Unwrap(st.curr_token) EXCEPT
                                         !.frames = @ \o st.cached_frames]))
    ELSE [st |-> st, res |-> "TokenPending"]

PassivePassOnToken(st, p) ==
    IF IsSome(st.curr_token)
    THEN PassiveSendPacket([st EXCEPT !.curr_token = None], p,
                           TokenPass(Unwrap(st.curr_token)))
    ELSE [st |-> st, res |-> "TokenPending"]

\* Mutant of PassiveRecvTokenPass: the staged frames go in front of the
\* frames the token came with.
PassiveRecvTokenPassPrepends(st, token) ==
    [st EXCEPT !.curr_token =
                   Some([token EXCEPT !.frames = st.cached_frames \o @]),
               !.cached_frames = <<>>]

PassiveRecvTokenPass(st, token) ==
    [st EXCEPT !.curr_token =
                   Some([token EXCEPT !.frames = @ \o st.cached_frames]),
               !.cached_frames = <<>>]

\* Mutant of RecvJoinReply: a denied station falls back to Offline.
RecvJoinReplyDenyResets(st, content) ==
    IF st.conn_mode.mode = "Offline" THEN [st |-> st, res |-> "NotConnected"]
    ELSE IF st.conn_mode.mode = "Connected"
    THEN [st |-> st, res |-> "AlreadyConnected"]
    ELSE IF content.result = "Confirm"
    THEN [st |-> [st EXCEPT !.conn_mode = Connected(content.id, st.conn_mode.addr)],
          res |-> "Ok"]
    ELSE [st |-> [st EXCEPT !.conn_mode = Offline], res |-> "FailedJoinAttempt"]

RecvJoinReply(st, content) ==
    IF st.conn_mode.mode = "Offline" THEN [st |-> st, res |-> "NotConnected"]
    ELSE IF st.conn_mode.mode = "Connected"
    THEN [st |-> st, res |-> "AlreadyConnected"]
    ELSE IF content.result = "Confirm"
    THEN [st |-> [st EXCEPT !.conn_mode = Connected(content.id, st.conn_mode.addr)],
          res |-> "Ok"]
    ELSE [st |-> st, res |-> "FailedJoinAttempt"]

\* recv_next on a station whose queue holds at least the packet qp.
\* Mutant of RecvNext: a Connected station does not compare the source
\* address of the datagram.
RecvNextAnyAddress(st, qp) ==
    LET st1 == [st EXCEPT !.recv_queue = Tail(@)]
        content == qp.packet.content
    IN  IF st1.conn_mode.mode = "Connected"
        THEN IF qp.packet.header.val = st1.conn_mode.id
             THEN IF content.type = "TokenPass"
                  THEN [st |-> PassiveRecvTokenPass(st1, Unwrap(content.token)),
                        res |-> "Ok"]
                  ELSE [st |-> st1, res |-> "Ok"]
             ELSE [st |-> st1, res |-> "InvalidWorkStationId"]
        ELSE IF content.type = "JoinReply"
             THEN RecvJoinReply(st1, content)
             ELSE [st |-> st1, res |-> "NotConnected"]

RecvNext(st, qp) ==
    LET st1 == [st EXCEPT !.recv_queue = Tail(@)]
        content == qp.packet.content
    IN  IF st1.conn_mode.mode = "Connected"
        THEN IF qp.addr = st1.conn_mode.addr
             THEN IF qp.packet.header.val = st1.conn_mode.id
                  THEN IF content.type = "TokenPass"
                       THEN [st |-> PassiveRecvTokenPass(st1, Unwrap(content.token)),
                             res |-> "Ok"]
                       ELSE [st |-> st1, res |-> "Ok"]
                  ELSE [st |-> st1, res |-> "InvalidWorkStationId"]
             ELSE [st |-> st1, res |-> "InvalidSocketAddress"]
        ELSE IF content.type = "JoinReply"
             THEN RecvJoinReply(st1, content)
             ELSE [st |-> st1, res |-> "NotConnected"]

\* ------------------------------------------------------------------ state
Event(op, res, id) == [op |-> op, res |-> res, id |-> id, minted |-> FALSE]
Internal == Event("internal", "Ok", MonitorId)

\* The insertion history after an operation of the monitor: ids that left
\* are dropped, an id that was added goes last.
RECURSIVE SeqOfSet(_)
SeqOfSet(S) ==
    IF S = {} THEN <<>>
    ELSE LET x == CHOOSE y \in S : \A z \in S : y <= z
         IN  <<x>> \o SeqOfSet(S \ {x})

Inserted(old, s) ==
    LET members == DOMAIN s.connected_stations
        kept == Filter(old, members)
    IN  kept \o SeqOfSet(members \ {kept[i] : i \in 1..Len(kept)})

\* Nothing is being written or read.
NoCodec == [phase |-> "idle"]

\* The monitor's recv_loop awaits readability of its socket, on which no
\* datagram is waiting.
Listening == [pc |-> "readable", sock |-> <<>>]

\* The state after host() and new(): ids are the station ids the hasher of
\* this run will ever have to order.
Boot(ids) ==
    /\ active = Host
    /\ passive = [p \in Stations |-> NewPassiveStation]
    /\ hash_order \in Perms(ids)
    /\ codec = NoCodec
    /\ receiver = Listening
    /\ sender = "try_recv"
    /\ insertion = <<>>
    /\ passes = [p \in Stations |-> 0]
    /\ foreign_sent = 0
    /\ frames_staged = 0
    /\ draining = FALSE
    /\ ev = Event("host", "Ok", MonitorId)

Init == Boot(Stations)

\* ---------------------------------------------------------------- actions
\* comm.rs: send_loop spins on try_recv, so a queued packet is on the wire
\* before the application task's next call: application steps are taken with
\* every send queue drained.
Quiet ==
    /\ active.send_queue = <<>>
    /\ \A p \in Stations : passive[p].send_queue = <<>>

\* One iteration of the loop of ActiveStation::recv_all: the call returns
\* when the queue is empty or when a packet's handling returns an error.
RecvAll ==
    /\ Quiet
    /\ IF active.recv_queue = <<>>
       THEN /\ draining' = FALSE
            /\ ev' = Event("recv_all", "Empty", MonitorId)
            /\ UNCHANGED <<active, insertion>>
       ELSE LET qp == Head(active.recv_queue)
                r == RecvAllDispatch([active EXCEPT !.recv_queue = Tail(@)], qp)
            IN  /\ active' = r.s
                /\ insertion' = Inserted(insertion, r.s)
                /\ draining' = (r.res = "Ok")
                /\ ev' = Event(qp.packet.content.type, r.res, qp.packet.header.val)
    /\ UNCHANGED <<passive, hash_order, codec, receiver, sender, passes, foreign_sent, frames_staged>>

PollStep ==
    /\ Quiet
    /\ ~draining
    /\ LET r == PollTokenPass(active)
       IN  /\ active' = r.s
           /\ ev' = [Event("poll_token_pass", r.res,
                           IF IsSome(r.to) THEN Unwrap(r.to) ELSE MonitorId)
                       EXCEPT !.minted = r.minted]
    /\ UNCHANGED <<passive, hash_order, codec, receiver, sender, insertion, foreign_sent, frames_staged,
                   draining>>

Poll == PollStep /\ UNCHANGED passes

\* The clock advances; only the age of the token in flight is ever read.
Tick ==
    /\ Quiet
    /\ IsSome(active.token_passer.state)
    /\ Elapsed(active.token_passer) <= MaxPassoverTime
    /\ active' = [active EXCEPT !.token_passer.state[1].elapsed = @ + 1]
    /\ ev' = Internal
    /\ UNCHANGED <<passive, hash_order, codec, receiver, sender, insertion, passes, foreign_sent,
                   frames_staged, draining>>

PassiveCall(p, r, op) ==
    /\ passive' = [passive EXCEPT ![p] = r.st]
    /\ ev' = Event(op, r.res, p)
    /\ UNCHANGED <<active, hash_order, codec, receiver, sender, insertion, passes, foreign_sent, draining>>

\* The application connects once, as token-ring-chat does.
Connect(p) ==
    /\ Quiet
    /\ passive[p].running
    /\ passive[p].conn_mode.mode = "Offline"
    /\ \E pw \in {Password, WrongPassword} :
          PassiveCall(p, PassiveConnect(passive[p], p, MonitorAddr, pw), "connect")
    /\ UNCHANGED frames_staged

Shutdown(p) ==
    /\ Quiet
    /\ passive[p].running
    /\ PassiveCall(p, PassiveShutdown(passive[p], p), "shutdown")
    /\ UNCHANGED frames_staged

StageFrame(p) ==
    /\ Quiet
    /\ passive[p].running
    /\ frames_staged < MaxFrames
    /\ frames_staged' = frames_staged + 1
    /\ PassiveCall(p, [st |-> AppendFrame(passive[p], p, "Data"), res |-> "Ok"],
                   "append_frame")

PassOn(p) ==
    /\ Quiet
    /\ passive[p].running
    /\ PassiveCall(p, PassivePassOnToken(passive[p], p), "pass_on_token")
    /\ UNCHANGED frames_staged

Recv(p) ==
    /\ Quiet
    /\ passive[p].running
    /\ passive[p].recv_queue /= <<>>
    /\ PassiveCall(p, RecvNext(passive[p], Head(passive[p].recv_queue)), "recv_next")
    /\ UNCHANGED frames_staged

\* comm.rs: the monitor's send_loop sends one queued packet; the datagram
\* reaches the recv_loop at its destination, or is lost on the way or for
\* want of room.
ActiveSendLoop(delivered) ==
    /\ active.send_queue /= <<>>
    /\ LET qp == Head(active.send_queue)
           d == qp.addr
       IN  /\ active' = [active EXCEPT !.send_queue = Tail(@)]
           /\ IF delivered /\ d \in Stations /\ passive[d].running
                 /\ Len(passive[d].recv_queue) < MaxQueue
              THEN passive' = [passive EXCEPT ![d].recv_queue =
                                  Append(@, QueuedPacket(qp.packet, MonitorAddr))]
              ELSE UNCHANGED passive
    /\ ev' = Internal
    /\ UNCHANGED <<hash_order, codec, receiver, sender, insertion, passes, foreign_sent, frames_staged,
                   draining>>

PassiveSendLoop(p, delivered) ==
    /\ passive[p].send_queue /= <<>>
    /\ LET qp == Head(passive[p].send_queue)
       IN  /\ passive' = [passive EXCEPT ![p].send_queue = Tail(@)]
           /\ IF delivered /\ qp.addr = MonitorAddr
                 /\ Len(active.recv_queue) < MaxQueue
              THEN active' = [active EXCEPT !.recv_queue =
                                 Append(@, QueuedPacket(qp.packet, p))]
              ELSE UNCHANGED active
    /\ ev' = Internal
    /\ UNCHANGED <<hash_order, codec, receiver, sender, insertion, passes, foreign_sent, frames_staged,
                   draining>>

ActiveSend == \E delivered \in BOOLEAN : ActiveSendLoop(delivered)

PassiveSend(p) == \E delivered \in BOOLEAN : PassiveSendLoop(p, delivered)

\* A host that is no station process sends the monitor a datagram under a
\* station's id, signed with its own key or carrying a broken signature.
ForeignContents ==
    {JoinRequest(Password), JoinRequest(WrongPassword), Leave,
     JoinReplyConfirm(MonitorId),
     TokenPass(Token(Signed(ForeignAddr, TokenHeader(MonitorId))))}

ForeignPacketAs(ids, contents, intacts) ==
    /\ Quiet
    /\ foreign_sent < MaxForeign
    /\ Len(active.recv_queue) < MaxQueue
    /\ \E id \in ids, content \in contents, intact \in intacts :
          LET header == IF intact THEN Signed(ForeignAddr, PacketHeader(id))
                        ELSE Corrupted(Signed(ForeignAddr, PacketHeader(id)))
          IN  active' = [active EXCEPT !.recv_queue =
                            Append(@, QueuedPacket(Packet(header, content), ForeignAddr))]
    /\ foreign_sent' = foreign_sent + 1
    /\ ev' = Internal
    /\ UNCHANGED <<passive, hash_order, codec, receiver, sender, insertion, passes, frames_staged, draining>>

ForeignPacket(contents, intacts) == ForeignPacketAs(Stations, contents, intacts)

ForeignSend == ForeignPacket(ForeignContents, BOOLEAN)

\* A well-formed JoinRequest with the right password under a station's id
\* from another address: the station's process restarted on another port, or
\* another host that knows the password.
Rejoin == ForeignPacket({JoinRequest(Password)}, {TRUE})

Next ==
    \/ RecvAll
    \/ Poll
    \/ Tick
    \/ \E p \in Stations : Connect(p)
    \/ \E p \in Stations : Shutdown(p)
    \/ \E p \in Stations : PassOn(p)
    \/ \E p \in Stations : Recv(p)
    \/ ActiveSend
    \/ \E p \in Stations : PassiveSend(p)
    \/ Rejoin

Spec == Init /\ [][Next]_vars

\* The ring with a foreign host on the network.
ForeignNext ==
    \/ RecvAll
    \/ Poll
    \/ Tick
    \/ \E p \in Stations : Connect(p)
    \/ \E p \in Stations : PassOn(p)
    \/ \E p \in Stations : Recv(p)
    \/ ActiveSend
    \/ \E p \in Stations : PassiveSend(p)
    \/ ForeignSend

ForeignSpec == Init /\ [][ForeignNext]_vars

\* ------------------------------------------------------ a settled ring
\* Every station has joined and learnt of it; the monitor's recv_all has
\* returned.  The joins were handled in either order.
\* The member that is no good: the one with the least id.
Silent == CHOOSE p \in Stations : \A q \in Stations : p <= q

Joined == [NewPassiveStation EXCEPT !.conn_mode = Connected(MonitorId, MonitorAddr)]

\* A station after shutdown().
ShutDown == [NewPassiveStation EXCEPT !.running = FALSE]

SettledRing(stations) ==
    /\ active = [Host EXCEPT
                    !.connected_stations = [p \in Stations |-> p],
                    !.token_passer.station_status = [p \in Stations |-> FALSE]]
    /\ passive = stations
    /\ hash_order \in Perms(Stations)
    /\ codec = NoCodec
    /\ receiver = Listening
    /\ sender = "try_recv"
    /\ insertion \in Perms(Stations)
    /\ passes = [p \in Stations |-> 0]
    /\ foreign_sent = 0
    /\ frames_staged = 0
    /\ draining = FALSE
    /\ ev = Event("recv_all", "Empty", MonitorId)

RingInit == SettledRing([p \in Stations |-> Joined])

\* poll_token_pass, with the passes of the current round counted: a pass
\* that resets the held flags opens a new round.
CountedPoll ==
    /\ PollStep
    /\ LET r == PollTokenPass(active)
           to == Unwrap(r.to)
       IN  passes' =
             IF r.res /= "Ok" THEN passes
             ELSE IF NotHeld(active.token_passer) = {}
                  THEN [m \in Stations |-> IF m = to THEN 1 ELSE 0]
                  ELSE [passes EXCEPT ![to] = IF @ < MaxPasses THEN @ + 1 ELSE @]

\* Time passes, but never so much that a token in flight times out.
TimelyTick ==
    /\ Tick
    /\ \/ active.token_passer.pass_mode = "Received"
       \/ Elapsed(active.token_passer) + 1 < MaxPassoverTime

DeliveredActiveSend == ActiveSendLoop(TRUE)

DeliveredPassiveSend(p) == PassiveSendLoop(p, TRUE)

RingNext ==
    \/ RecvAll
    \/ CountedPoll
    \/ TimelyTick
    \/ \E p \in Stations : StageFrame(p)
    \/ \E p \in Stations : PassOn(p)
    \/ \E p \in Stations : Recv(p)
    \/ DeliveredActiveSend
    \/ \E p \in Stations : DeliveredPassiveSend(p)

RingSpec == RingInit /\ [][RingNext]_vars

\* ------------------------------------------------- liveness under loss
\* token-ring-chat-auth: the monitor's loop calls recv_all and poll_token_pass
\* for ever and the clock advances; the send loops keep running.  Datagrams
\* may be lost, and a station may sit on the token.
LossyNext ==
    \/ RecvAll
    \/ Poll
    \/ Tick
    \/ \E p \in Stations : PassOn(p)
    \/ \E p \in Stations : Recv(p)
    \/ ActiveSend
    \/ \E p \in Stations : PassiveSend(p)

\* Station Silent has shut down and its Leave was lost: it is a member still,
\* and every token passed to it is lost.
LossyInit ==
    SettledRing([p \in Stations |-> IF p = Silent THEN ShutDown ELSE Joined])

FairSpec ==
    /\ LossyInit
    /\ [][LossyNext]_vars
    /\ SF_vars(Poll)
    /\ SF_vars(Tick)
    /\ WF_vars(RecvAll)
    /\ WF_vars(ActiveSend)
    /\ \A p \in Stations : WF_vars(PassiveSend(p))

\* ------------------------------------------------ a ring with a silent member
\* Station Silent receives the token and never passes it on; the others
\* return it before any time has passed.  Nothing is lost, and every loop
\* keeps running.
SilentTick ==
    /\ Tick
    /\ Unwrap(active.token_passer.state).id = Silent

SilentNext ==
    \/ RecvAll
    \/ Poll
    \/ SilentTick
    \/ \E p \in Stations : StageFrame(p)
    \/ \E p \in Stations \ {Silent} : PassOn(p)
    \/ \E p \in Stations : Recv(p)
    \/ DeliveredActiveSend
    \/ \E p \in Stations : DeliveredPassiveSend(p)

SilentSpec ==
    /\ RingInit
    /\ [][SilentNext]_vars
    /\ SF_vars(Poll)
    /\ SF_vars(SilentTick)
    /\ WF_vars(RecvAll)
    /\ WF_vars(DeliveredActiveSend)
    /\ \A p \in Stations : WF_vars(DeliveredPassiveSend(p))
    /\ \A p \in Stations : SF_vars(Recv(p))
    /\ \A p \in Stations \ {Silent} : SF_vars(PassOn(p))

\* ------------------------------------------------- stations that connect again
\* PassiveStation::connect has no guard on the connection mode: an
\* application may call it again while Pending or Connected.
Reconnect(p) ==
    /\ Quiet
    /\ passive[p].running
    /\ passive[p].conn_mode.mode /= "Offline"
    /\ \E pw \in {Password, WrongPassword} :
          PassiveCall(p, PassiveConnect(passive[p], p, MonitorAddr, pw), "connect")
    /\ UNCHANGED frames_staged

ReconnectNext ==
    \/ RecvAll
    \/ Poll
    \/ \E p \in Stations : Connect(p)
    \/ \E p \in Stations : Reconnect(p)
    \/ \E p \in Stations : PassOn(p)
    \/ \E p \in Stations : Recv(p)
    \/ ActiveSend
    \/ \E p \in Stations : PassiveSend(p)

ReconnectSpec == Init /\ [][ReconnectNext]_vars

\* ------------------------------------------------- one station too many
\* The host outside the ring runs a station of its own, under an id of its
\* own, and asks to join with the right password.
ForeignId == NumStations + 1

Newcomer == ForeignPacketAs({ForeignId}, {JoinRequest(Password)}, {TRUE})

CapacityNext ==
    \/ RecvAll
    \/ Poll
    \/ \E p \in Stations : Connect(p)
    \/ \E p \in Stations : PassOn(p)
    \/ \E p \in Stations : Recv(p)
    \/ ActiveSend
    \/ \E p \in Stations : PassiveSend(p)
    \/ Newcomer

CapacitySpec == Boot(Stations \cup {ForeignId}) /\ [][CapacityNext]_vars

\* ------------------------------------------------- a burst of datagrams
\* The monitor's receive queue is an unbounded channel: a datagram of the
\* host outside the ring arrives behind one that is still queued.
ForeignBurst ==
    /\ Quiet
    /\ foreign_sent < MaxForeign
    /\ active.recv_queue /= <<>>
    /\ Len(active.recv_queue) <= MaxQueue
    /\ \E id \in Stations, content \in {JoinRequest(Password), Leave} :
          active' = [active EXCEPT !.recv_queue =
                        Append(@, QueuedPacket(
                            Packet(Signed(ForeignAddr, PacketHeader(id)), content),
                            ForeignAddr))]
    /\ foreign_sent' = foreign_sent + 1
    /\ ev' = Internal
    /\ UNCHANGED <<passive, hash_order, codec, receiver, sender, insertion, passes, frames_staged, draining>>

DrainNext ==
    \/ RecvAll
    \/ Poll
    \/ \E p \in Stations : Connect(p)
    \/ \E p \in Stations : PassOn(p)
    \/ \E p \in Stations : Recv(p)
    \/ ActiveSend
    \/ \E p \in Stations : PassiveSend(p)
    \/ ForeignBurst

DrainSpec == Init /\ [][DrainNext]_vars

\* ------------------------------------------------- a member with a key of its own
\* get_token_mut hands the application the held token, header and all (the
\* fields of Token are public): a member puts a header signed with its own
\* key in the place of the monitor's.
ForgedHeader(p) == Signed(p, TokenHeader(p))

GetTokenMut(st, header) ==
    [st EXCEPT !.curr_token = Some([Unwrap(@) EXCEPT !.header = header])]

Forge(p) ==
    /\ Quiet
    /\ passive[p].running
    /\ IsSome(passive[p].curr_token)
    /\ Unwrap(passive[p].curr_token).header /= ForgedHeader(p)
    /\ PassiveCall(p, [st |-> GetTokenMut(passive[p], ForgedHeader(p)),
                       res |-> "Ok"], "get_token_mut")
    /\ UNCHANGED frames_staged

ForgeNext ==
    \/ RecvAll
    \/ Poll
    \/ \E p \in Stations : PassOn(p)
    \/ \E p \in Stations : Recv(p)
    \/ DeliveredActiveSend
    \/ \E p \in Stations : DeliveredPassiveSend(p)
    \/ \E p \in Stations : Forge(p)

ForgeSpec == RingInit /\ [][ForgeNext]_vars

\* ------------------------------------------------- a host that talks to stations
\* The host outside the ring sends a station a datagram: a JoinReply that
\* confirms under the host's own id, or a token of its own making, under the
\* monitor's id or its own.
ImpostorContents ==
    {JoinReplyConfirm(ForeignId),
     TokenPass(Token(Signed(ForeignAddr, TokenHeader(MonitorId))))}

Impostor(p) ==
    /\ Quiet
    /\ foreign_sent < MaxForeign
    /\ passive[p].running
    /\ Len(passive[p].recv_queue) < MaxQueue
    /\ \E id \in {MonitorId, ForeignId}, content \in ImpostorContents :
          passive' = [passive EXCEPT ![p].recv_queue =
                         Append(@, QueuedPacket(
                             Packet(Signed(ForeignAddr, PacketHeader(id)), content),
                             ForeignAddr))]
    /\ foreign_sent' = foreign_sent + 1
    /\ ev' = Internal
    /\ UNCHANGED <<active, hash_order, codec, receiver, sender, insertion, passes, frames_staged, draining>>

ImpostorNext ==
    \/ RecvAll
    \/ Poll
    \/ \E p \in Stations : Connect(p)
    \/ \E p \in Stations : StageFrame(p)
    \/ \E p \in Stations : PassOn(p)
    \/ \E p \in Stations : Recv(p)
    \/ DeliveredActiveSend
    \/ \E p \in Stations : DeliveredPassiveSend(p)
    \/ \E p \in Stations : Impostor(p)

ImpostorSpec == Init /\ [][ImpostorNext]_vars

\* ------------------------------------------------- stations that stage frames
\* The applications stage Data frames, told apart by their sequence numbers,
\* at any time; station Silent sits on the token, the others return theirs.
MaxStaged == 2

DataFrame(seq) == [type |-> "Data", seq |-> seq]

StageData(p) ==
    /\ Quiet
    /\ passive[p].running
    /\ frames_staged < MaxStaged
    /\ frames_staged' = frames_staged + 1
    /\ PassiveCall(p, [st |-> AppendFrame(passive[p], p, DataFrame(frames_staged)),
                       res |-> "Ok"], "append_frame")

StagingNext ==
    \/ RecvAll
    \/ Poll
    \/ SilentTick
    \/ \E p \in Stations : StageData(p)
    \/ \E p \in Stations \ {Silent} : PassOn(p)
    \/ \E p \in Stations : Recv(p)
    \/ DeliveredActiveSend
    \/ \E p \in Stations : DeliveredPassiveSend(p)

StagingSpec == RingInit /\ [][StagingNext]_vars

\* ------------------------------------------------- the chat of alice and bob
\* token-ring-chat: alice and bob have joined in that order; a station looks
\* at the token it has received, and alice appends a frame to say something
\* before she passes it on.  Nothing is lost and nobody is late.
Alice == Head(SeqOfSet(Stations))

Bob == CHOOSE p \in Stations : p /= Alice

ChatInit == RingInit /\ insertion = <<Alice, Bob>>

AppendToHeldToken(p) ==
    /\ IsSome(passive[p].curr_token)
    /\ StageData(p)

ChatNext ==
    \/ RecvAll
    \/ Poll
    \/ AppendToHeldToken(Alice)
    \/ \E p \in Stations : PassOn(p)
    \/ \E p \in Stations : Recv(p)
    \/ DeliveredActiveSend
    \/ \E p \in Stations : DeliveredPassiveSend(p)

ChatSpec == ChatInit /\ [][ChatNext]_vars

\* ------------------------------------------------- the monitor's sender task
\* comm.rs, send_loop, step by step: the while-let loop takes a packet off
\* the queue and sends it, or finds the queue empty and falls through to the
\* load of the running flag, which ends the task or starts the loop again.
\* The application task runs beside it and calls shutdown when it pleases.
SenderTryRecv ==
    /\ sender = "try_recv"
    /\ IF active.send_queue /= <<>>
       THEN ActiveSend
       ELSE /\ sender' = "load_running"
            /\ ev' = Internal
            /\ UNCHANGED <<active, passive, hash_order, codec, receiver, insertion, passes,
                           foreign_sent, frames_staged, draining>>

SenderLoadRunning ==
    /\ sender = "load_running"
    /\ sender' = IF active.running THEN "try_recv" ELSE "stopped"
    /\ ev' = Internal
    /\ UNCHANGED <<active, passive, hash_order, codec, receiver, insertion, passes, foreign_sent,
                   frames_staged, draining>>

ActiveShutdown ==
    /\ active.running
    /\ active' = [active EXCEPT !.running = FALSE]
    /\ ev' = Event("active_shutdown", "Ok", MonitorId)
    /\ UNCHANGED <<passive, hash_order, codec, receiver, sender, insertion, passes, foreign_sent,
                   frames_staged, draining>>

\* The application makes no call after shutdown: what is queued when the
\* sender stops was queued before running was cleared.
MonitorRecvAll == active.running /\ RecvAll

MonitorPoll == active.running /\ Poll

SenderNext ==
    \/ MonitorRecvAll
    \/ MonitorPoll
    \/ ActiveShutdown
    \/ SenderTryRecv
    \/ SenderLoadRunning
    \/ \E p \in Stations : PassOn(p)
    \/ \E p \in Stations : Recv(p)
    \/ \E p \in Stations : PassiveSend(p)

SenderSpec == RingInit /\ [][SenderNext]_vars

\* ------------------------------------------------- the monitor's receiver task
\* comm.rs, recv_loop, step by step.  A datagram waits on the socket until
\* the loop has awaited readability and called try_recv_from; bytes that are
\* no packet send the loop back to the top (continue), a packet is queued for
\* the application task and only then is the running flag loaded.
Datagram(packet, addr, intact) ==
    [packet |-> packet, addr |-> addr, intact |-> intact]

\* A station's send_loop sends its next packet, which reaches the monitor's
\* socket unless there is no room for it.
StationSendsToSocket(p) ==
    /\ passive[p].send_queue /= <<>>
    /\ LET qp == Head(passive[p].send_queue)
       IN  /\ passive' = [passive EXCEPT ![p].send_queue = Tail(@)]
           /\ receiver' =
                 IF qp.addr = MonitorAddr /\ Len(receiver.sock) < MaxQueue
                 THEN [receiver EXCEPT !.sock = Append(@, Datagram(qp.packet, p, TRUE))]
                 ELSE receiver
    /\ ev' = Internal
    /\ UNCHANGED <<active, hash_order, codec, sender, insertion, passes, foreign_sent,
                   frames_staged, draining>>

\* The host outside the ring sends bytes that are no packet.
StrayBytes ==
    /\ foreign_sent < MaxForeign
    /\ Len(receiver.sock) < MaxQueue
    /\ receiver' = [receiver EXCEPT !.sock = Append(@,
          Datagram(Packet(Signed(ForeignAddr, PacketHeader(ForeignId)), Leave),
                   ForeignAddr, FALSE))]
    /\ foreign_sent' = foreign_sent + 1
    /\ ev' = Internal
    /\ UNCHANGED <<active, passive, hash_order, codec, sender, insertion, passes,
                   frames_staged, draining>>

ReceiverReadable ==
    /\ receiver.pc = "readable"
    /\ receiver.sock /= <<>>
    /\ receiver' = [receiver EXCEPT !.pc = "try_recv_from"]
    /\ ev' = Internal
    /\ UNCHANGED <<active, passive, hash_order, codec, sender, insertion, passes,
                   foreign_sent, frames_staged, draining>>

ReceiverTryRecvFrom ==
    /\ receiver.pc = "try_recv_from"
    /\ LET d == Head(receiver.sock)
       IN  IF d.intact
           THEN /\ receiver' = [pc |-> "load_running", sock |-> Tail(receiver.sock)]
                /\ active' = IF Len(active.recv_queue) < MaxQueue
                             THEN [active EXCEPT !.recv_queue =
                                      Append(@, QueuedPacket(d.packet, d.addr))]
                             ELSE active
           ELSE /\ receiver' = [pc |-> "readable", sock |-> Tail(receiver.sock)]
                /\ UNCHANGED active
    /\ ev' = Internal
    /\ UNCHANGED <<passive, hash_order, codec, sender, insertion, passes, foreign_sent,
                   frames_staged, draining>>

ReceiverLoadRunning ==
    /\ receiver.pc = "load_running"
    /\ receiver' = [receiver EXCEPT
                       !.pc = IF active.running THEN "readable" ELSE "stopped"]
    /\ ev' = Internal
    /\ UNCHANGED <<active, passive, hash_order, codec, sender, insertion, passes,
                   foreign_sent, frames_staged, draining>>

ReceiverNext ==
    \/ MonitorRecvAll
    \/ MonitorPoll
    \/ ActiveShutdown
    \/ ActiveSend
    \/ \E p \in Stations : PassOn(p)
    \/ \E p \in Stations : Recv(p)
    \/ \E p \in Stations : StationSendsToSocket(p)
    \/ StrayBytes
    \/ ReceiverReadable
    \/ ReceiverTryRecvFrom
    \/ ReceiverLoadRunning

\* The runtime keeps every task going: no step of a loop that can be taken
\* is put off for ever.
ReceiverSpec ==
    /\ RingInit
    /\ [][ReceiverNext]_vars
    /\ WF_vars(ReceiverReadable)
    /\ WF_vars(ReceiverTryRecvFrom)
    /\ WF_vars(ReceiverLoadRunning)
    /\ WF_vars(ActiveSend)
    /\ \A p \in Stations : WF_vars(StationSendsToSocket(p))

\* ================================================================ claims
Members == DOMAIN active.connected_stations

Holders == {p \in Stations : IsSome(passive[p].curr_token)}

\* The step is a call of poll_token_pass that passed the token.
Passed == ev'.op = "poll_token_pass" /\ ev'.res = "Ok"

\* C1: at most one passive station holds a token (curr_token non-empty) at
\* any instant.
ExclusiveTokenPossession == Cardinality(Holders) <= 1

\* C2: the ids of the membership table are the ids of the rotation-status
\* table, whatever packets and polls the monitor has handled.
MembershipMatchesStatus ==
    DOMAIN active.connected_stations = DOMAIN active.token_passer.station_status

\* C2 witness: a member has left after another had joined, the tables in step.
MemberLeft ==
    /\ ev.op = "Leave" /\ ev.res = "Ok"
    /\ Members /= {}
    /\ ev.id \notin Members
    /\ MembershipMatchesStatus

\* C3: poll_token_pass passes the token to the first member in insertion
\* order whose held flag is clear; when every flag is set it clears them all
\* and passes to the member inserted last.
FirstNotHeldInInsertionOrder ==
    LET tp == active.token_passer
        not_held == Filter(insertion, NotHeld(tp))
    IN  IF not_held /= <<>> THEN not_held[1] ELSE insertion[Len(insertion)]

RotationInInsertionOrder ==
    [][Passed => ev'.id = FirstNotHeldInInsertionOrder]_vars

\* C4: when the station X the token was passed to lets max_passover_time go
\* by, the next successful poll passes the token to a station other than X
\* (there being another), and X's held flag stays clear.
TimedOut ==
    /\ IsSome(active.token_passer.state)
    /\ active.token_passer.pass_mode = "Passed"
    /\ Elapsed(active.token_passer) >= MaxPassoverTime
    /\ Unwrap(active.token_passer.state).id \in Members
    /\ Cardinality(Members) >= 2

TimeoutSkipsHolder ==
    [][(Passed /\ TimedOut) =>
          LET X == Unwrap(active.token_passer.state).id
          IN  /\ ev'.id /= X
              /\ ~active'.token_passer.station_status[X]]_vars

\* C5: the pass that opens a round (every held flag was set and is cleared)
\* carries a token minted by that very call, with no frames, and not the
\* token accepted in the round before.
OpensRound == Passed /\ Members /= {} /\ NotHeld(active.token_passer) = {}

FreshTokenPerRound ==
    [][OpensRound =>
          /\ ev'.minted
          /\ active'.send_queue[Len(active'.send_queue)].packet.content.token
                = Some(GenerateToken)]_vars

\* C6: in a ring where one member never returns the token and the others
\* return it in time, every other member is passed the token again and again.
StarvationFreedom ==
    \A p \in Stations \ {Silent} :
        []<>(ev.op = "poll_token_pass" /\ ev.res = "Ok" /\ ev.id = p)

\* C7: poll_token_pass does not answer TokenPending for ever: whenever it
\* has, a later poll passes the token, although datagrams are lost; and a
\* poll made once max_passover_time has gone by never answers TokenPending.
PollPending == ev.op = "poll_token_pass" /\ ev.res = "TokenPending"

TokenPendingEnds ==
    /\ PollPending ~> (ev.op = "poll_token_pass" /\ ev.res = "Ok")
    /\ [][(ev'.op = "poll_token_pass" /\ IsSome(active.token_passer.state)
           /\ Elapsed(active.token_passer) >= MaxPassoverTime)
             => ev'.res /= "TokenPending"]_vars

\* C7 witness: the monitor answers TokenPending while the token it passed is
\* nowhere: no station holds it and no queue carries it.
TokenLostWhilePending ==
    /\ PollPending
    /\ Holders = {}
    /\ Quiet
    /\ active.recv_queue = <<>>
    /\ \A p \in Stations : passive[p].recv_queue = <<>>

JoinRequestNext ==
    /\ active.recv_queue /= <<>>
    /\ Head(active.recv_queue).packet.content.type = "JoinRequest"
    /\ Verify(Head(active.recv_queue).packet.header)
    /\ ev'.op = "JoinRequest"

\* C9: a JoinRequest with a password other than the configured one is
\* answered with exactly one JoinReply(Deny) to the requester's address, and
\* leaves the membership table and the rotation-status table as they were.
WrongPasswordDenied ==
    [][(JoinRequestNext
        /\ Head(active.recv_queue).packet.content.pw /= Password) =>
          /\ Len(active'.send_queue) = Len(active.send_queue) + 1
          /\ LET reply == active'.send_queue[Len(active'.send_queue)]
             IN  /\ reply.addr = Head(active.recv_queue).addr
                 /\ reply.packet.content.type = "JoinReply"
                 /\ reply.packet.content.result = "Deny"
          /\ active'.connected_stations = active.connected_stations
          /\ active'.token_passer.station_status
                = active.token_passer.station_status]_vars

\* C9 witness: a JoinRequest was rejected for its configuration and the one
\* denial is on its way to the requester, who is no member.
JoinDenied ==
    /\ ev.op = "JoinRequest" /\ ev.res = "RejectedJoinAttempt"
    /\ ev.id \notin Members
    /\ Len(active.send_queue) = 1
    /\ active.send_queue[1].packet.content = JoinReplyDeny("Invalid config")
    /\ active.send_queue[1].addr = ev.id

\* C10 as stated: every join answered with JoinReply(Confirm) makes the
\* membership table one entry larger and adds one status entry, held = false.
JoinAddsOneMember ==
    [][(JoinRequestNext /\ ev'.res = "Ok") =>
          /\ Cardinality(DOMAIN active'.connected_stations)
                = Cardinality(Members) + 1
          /\ DOMAIN active'.token_passer.station_status
                = DOMAIN active.token_passer.station_status \cup {ev'.id}
          /\ ev'.id \notin DOMAIN active.token_passer.station_status
          /\ ~active'.token_passer.station_status[ev'.id]]_vars

\* C10 amended: a join of an id that is no member yet, answered with
\* JoinReply(Confirm), makes the membership table one entry larger and adds
\* one status entry, held = false, leaving the other entries as they were.
NewJoinAddsOneMember ==
    [][(JoinRequestNext /\ ev'.res = "Ok" /\ ev'.id \notin Members) =>
          /\ Cardinality(DOMAIN active'.connected_stations)
                = Cardinality(Members) + 1
          /\ DOMAIN active'.token_passer.station_status
                = DOMAIN active.token_passer.station_status \cup {ev'.id}
          /\ ev'.id \notin DOMAIN active.token_passer.station_status
          /\ ~active'.token_passer.station_status[ev'.id]
          /\ \A m \in DOMAIN active.token_passer.station_status :
                active'.token_passer.station_status[m]
                    = active.token_passer.station_status[m]
          /\ active'.send_queue[Len(active'.send_queue)].packet.content
                = JoinReplyConfirm(MonitorId)]_vars

\* C10 witness: a second member has just been admitted while the first has
\* already held the token: its own entry is clear, the other is untouched.
SecondMemberJoined ==
    /\ ev.op = "JoinRequest" /\ ev.res = "Ok"
    /\ Cardinality(Members) = 2
    /\ insertion[2] = ev.id
    /\ ~active.token_passer.station_status[ev.id]
    /\ \E m \in Members \ {ev.id} : active.token_passer.station_status[m]
    /\ active.send_queue /= <<>>
    /\ active.send_queue[Len(active.send_queue)].packet.content
          = JoinReplyConfirm(MonitorId)

\* The packet the monitor's next recv_all iteration pops.
NextPacket == Head(active.recv_queue)

\* The rotation-status table, the membership table, the in-flight state, the
\* passer mode and the current token are as they were.
TablesUnchanged ==
    /\ active'.connected_stations = active.connected_stations
    /\ active'.token_passer.station_status = active.token_passer.station_status

PasserUnchanged == active'.token_passer = active.token_passer

\* C11: a JoinRequest from an id that is a member under the very address it
\* comes from is answered with one JoinReply(Deny("Already joined")) to that
\* address, returns RejectedJoinAttempt, and changes neither table, whatever
\* the password.
AlreadyJoinedDenied ==
    [][(JoinRequestNext
        /\ NextPacket.packet.header.val \in Members
        /\ active.connected_stations[NextPacket.packet.header.val]
              = NextPacket.addr) =>
          /\ ev'.res = "RejectedJoinAttempt"
          /\ active'.send_queue = Append(active.send_queue,
                QueuedPacket(Packet(Signed(MonitorAddr, PacketHeader(MonitorId)),
                                    JoinReplyDeny("Already joined")),
                             NextPacket.addr))
          /\ TablesUnchanged]_vars

\* C11 witness: a member's second JoinRequest has been refused.
SecondJoinRefused ==
    /\ ev.op = "JoinRequest" /\ ev.res = "RejectedJoinAttempt"
    /\ ev.id \in Members
    /\ active.connected_stations[ev.id] = ev.id
    /\ active.send_queue /= <<>>
    /\ active.send_queue[Len(active.send_queue)].packet.content
          = JoinReplyDeny("Already joined")

\* C12: the monitor never has more than max_connections members: a
\* JoinRequest handled while the membership count is max_connections or more
\* is denied and leaves both tables as they were.
MembershipBounded ==
    [][/\ Cardinality(DOMAIN active'.connected_stations) <= MaxConnections
       /\ (JoinRequestNext /\ Cardinality(Members) >= MaxConnections) =>
             /\ ev'.res = "RejectedJoinAttempt"
             /\ Len(active'.send_queue) = Len(active.send_queue) + 1
             /\ active'.send_queue[Len(active'.send_queue)].addr = NextPacket.addr
             /\ active'.send_queue[Len(active'.send_queue)].packet.content.result
                   = "Deny"
             /\ TablesUnchanged]_vars

\* C12 witness: the ring is full and the newcomer, who knows the password,
\* has been denied.
NewcomerDenied ==
    /\ ev.op = "JoinRequest" /\ ev.res = "RejectedJoinAttempt"
    /\ ev.id = ForeignId
    /\ Cardinality(Members) = MaxConnections
    /\ ForeignId \notin Members
    /\ active.send_queue /= <<>>
    /\ active.send_queue[Len(active.send_queue)].packet.content
          = JoinReplyDeny("Invalid config")

\* The next packet is a well-signed JoinRequest with the right password from
\* an id that is a member under another address.
RejoinNext ==
    /\ JoinRequestNext
    /\ NextPacket.packet.content.pw = Password
    /\ NextPacket.packet.header.val \in Members
    /\ active.connected_stations[NextPacket.packet.header.val] /= NextPacket.addr

Overwritten ==
    /\ active'.connected_stations =
          [active.connected_stations EXCEPT
              ![NextPacket.packet.header.val] = NextPacket.addr]
    /\ active'.token_passer.station_status
          = active.token_passer.station_status

\* C13 as stated: a JoinRequest with the right password from a member id
\* under a different address overwrites the stored address, adds no status
\* entry and keeps the id's held flag.
RejoinOverwritesAddress == [][RejoinNext => Overwritten]_vars

\* C13 amended: the same, while the ring has fewer than max_connections
\* members; the requester is sent JoinReply(Confirm).  In a full ring the
\* request is denied and the stored address stays.
RejoinOverwritesAddressIfRoom ==
    [][RejoinNext =>
          IF Cardinality(Members) < MaxConnections
          THEN /\ Overwritten
               /\ ev'.res = "Ok"
               /\ active'.send_queue[Len(active'.send_queue)]
                     = QueuedPacket(
                          Packet(Signed(MonitorAddr, PacketHeader(MonitorId)),
                                 JoinReplyConfirm(MonitorId)),
                          NextPacket.addr)
          ELSE /\ TablesUnchanged
               /\ ev'.res = "RejectedJoinAttempt"]_vars

\* C13 witness: a member that had held the token has just been re-admitted
\* under the foreign address, its held flag still set.
AddressOverwritten ==
    /\ ev.op = "JoinRequest" /\ ev.res = "Ok"
    /\ ev.id \in Members
    /\ active.connected_stations[ev.id] = ForeignAddr
    /\ active.token_passer.station_status[ev.id]

\* The monitor's next recv_all iteration handles a packet.
PacketNext ==
    /\ active.recv_queue /= <<>>
    /\ ev'.op = NextPacket.packet.content.type

\* The packet was popped and the monitor is otherwise as it was: nothing is
\* enqueued, no table and no part of the token passer has changed.
Dropped == active' = [active EXCEPT !.recv_queue = Tail(@)]

\* C14: a well-signed JoinReply, TokenPass or Leave whose source id is no
\* member is rejected with StationNotRegistered and changes nothing.
UnregisteredRejected ==
    [][(PacketNext
        /\ NextPacket.packet.content.type \in {"JoinReply", "TokenPass", "Leave"}
        /\ Verify(NextPacket.packet.header)
        /\ NextPacket.packet.header.val \notin Members) =>
          /\ ev'.res = "StationNotRegistered"
          /\ Dropped]_vars

\* C14 witness: a TokenPass under an id that is no member was rejected while
\* the token was out with a member.
UnregisteredTokenPassRejected ==
    /\ ev.op = "TokenPass" /\ ev.res = "StationNotRegistered"
    /\ ev.id \notin Members
    /\ IsSome(active.token_passer.state)
    /\ active.token_passer.pass_mode = "Passed"

\* C15: a packet of any type whose envelope signature does not verify is
\* dropped: InvalidSignature, no reply, nothing changed.
InvalidSignatureDropped ==
    [][(PacketNext /\ ~Verify(NextPacket.packet.header)) =>
          /\ ev'.res = "InvalidSignature"
          /\ Dropped]_vars

\* C15 witness: a Leave under a member's id with a broken signature was
\* dropped, and the member is a member still.
ForgedLeaveDropped ==
    /\ ev.op = "Leave" /\ ev.res = "InvalidSignature"
    /\ ev.id \in Members
    /\ active.send_queue = <<>>

\* C16: recv_all drains the whole queue: a call that finds further packets
\* queued behind its first one goes on to them, whatever the handling of the
\* first packet returned.
RecvAllDrainsQueue ==
    [][(PacketNext /\ ~draining /\ Len(active.recv_queue) >= 2) =>
          draining']_vars

\* C17: a well-signed TokenPass under a member's id from an address other
\* than the one registered for that id returns InvalidToken and is dropped:
\* held flags, passer mode, in-flight state and current token stay.
MisaddressedTokenDropped ==
    [][(PacketNext
        /\ NextPacket.packet.content.type = "TokenPass"
        /\ Verify(NextPacket.packet.header)
        /\ NextPacket.packet.header.val \in Members
        /\ active.connected_stations[NextPacket.packet.header.val]
              /= NextPacket.addr) =>
          /\ ev'.res = "InvalidToken"
          /\ Dropped]_vars

\* C17 witness: the token is out with a member, and a TokenPass under that
\* member's id from another address was refused: the member is not marked.
ForgedReturnRefused ==
    /\ ev.op = "TokenPass" /\ ev.res = "InvalidToken"
    /\ ev.id \in Members
    /\ active.connected_stations[ev.id] = ev.id
    /\ IsSome(active.token_passer.state)
    /\ Unwrap(active.token_passer.state).id = ev.id
    /\ active.token_passer.pass_mode = "Passed"
    /\ ~active.token_passer.station_status[ev.id]

\* The next packet is a well-signed Leave.
LeaveNext ==
    /\ PacketNext
    /\ NextPacket.packet.content.type = "Leave"
    /\ Verify(NextPacket.packet.header)

\* The Leave comes from a member, from the address registered for it.
FromRegisteredAddress ==
    /\ NextPacket.packet.header.val \in Members
    /\ active.connected_stations[NextPacket.packet.header.val] = NextPacket.addr

\* C18: a Leave from a member's registered address removes the member from
\* the membership table and from the rotation-status table, and leaves the
\* other entries alone; and every pass goes to a station that is a member at
\* the time, so one that left is passed the token again only after joining.
LeaveRemovesMember ==
    [][/\ (LeaveNext /\ FromRegisteredAddress) =>
             LET rest == Members \ {NextPacket.packet.header.val}
             IN  /\ ev'.res = "Ok"
                 /\ active'.connected_stations =
                       [m \in rest |-> active.connected_stations[m]]
                 /\ active'.token_passer.station_status =
                       [m \in rest |-> active.token_passer.station_status[m]]
       /\ Passed => ev'.id \in Members]_vars

\* C18 witness: a station shut down with the token in hand and was removed,
\* and the poll that followed passed the token to the member that is left.
PassedToRemainingMember ==
    /\ ev.op = "poll_token_pass" /\ ev.res = "Ok"
    /\ Cardinality(Members) = 1
    /\ ev.id \in Members
    /\ active.connected_stations[ev.id] = ev.id
    /\ \E p \in Stations \ Members :
          ~passive[p].running /\ IsSome(passive[p].curr_token)
    /\ DOMAIN active.token_passer.station_status = Members

\* C19: a well-signed Leave under an id that is no member, or from an
\* address other than the one registered for its id, returns
\* StationNotRegistered and removes nobody.
StrayLeaveRemovesNobody ==
    [][(LeaveNext /\ ~FromRegisteredAddress) =>
          /\ ev'.res = "StationNotRegistered"
          /\ TablesUnchanged
          /\ Dropped]_vars

\* C19 witness: a Leave under a member's id from another address was
\* refused, and the member is registered as before.
StrayLeaveRefused ==
    /\ ev.op = "Leave" /\ ev.res = "StationNotRegistered"
    /\ ev.id \in Members
    /\ active.connected_stations[ev.id] = ev.id
    /\ ev.id \in DOMAIN active.token_passer.station_status

\* The token is out and has been neither returned nor out for
\* max_passover_time.
NotPassReady ==
    /\ IsSome(active.token_passer.state)
    /\ active.token_passer.pass_mode /= "Received"
    /\ Unwrap(active.token_passer.state).elapsed < MaxPassoverTime

\* C20: poll_token_pass returns TokenPending when the passer is not
\* pass-ready, and EmptyRing when it is pass-ready and there are no members;
\* either way nothing is enqueued and the monitor's state is as it was.
PollRefusesQuietly ==
    [][ev'.op = "poll_token_pass" =>
          /\ NotPassReady => (ev'.res = "TokenPending" /\ active' = active)
          /\ (~NotPassReady /\ Members = {}) =>
                (ev'.res = "EmptyRing" /\ active' = active)
          /\ ev'.res \in {"TokenPending", "EmptyRing"} => active' = active]_vars

\* C20 witness: every member has left while the token was out; the poll
\* answered EmptyRing and the in-flight state is still there.
EmptyRingReported ==
    /\ ev.op = "poll_token_pass" /\ ev.res = "EmptyRing"
    /\ Members = {}
    /\ IsSome(active.token_passer.state)
    /\ active.send_queue = <<>>

\* C21: when poll_token_pass makes a pass (the passer is pass-ready and the
\* ring has members) the chosen station has an address in the membership
\* table, exactly one TokenPass goes on the send queue for that address, the
\* in-flight state becomes (chosen station, now) and the mode becomes Passed.
PassGoesToChosenMember ==
    [][(ev'.op = "poll_token_pass" /\ ~NotPassReady
        /\ DOMAIN active.token_passer.station_status /= {}) =>
          LET n == Len(active.send_queue)
          IN  /\ ev'.res = "Ok"
              /\ ev'.id \in Members
              /\ Len(active'.send_queue) = n + 1
              /\ SubSeq(active'.send_queue, 1, n) = active.send_queue
              /\ active'.send_queue[n + 1].addr = active.connected_stations[ev'.id]
              /\ active'.send_queue[n + 1].packet.content.type = "TokenPass"
              /\ IsSome(active'.send_queue[n + 1].packet.content.token)
              /\ active'.token_passer.state = Some(TokenState(ev'.id, 0))
              /\ active'.token_passer.pass_mode = "Passed"
              /\ active'.connected_stations = active.connected_stations]_vars

\* C21 witness: a member was re-admitted under another address, and the pass
\* that followed a returned token went to it at that address.
PassedToOverwrittenAddress ==
    /\ ev.op = "poll_token_pass" /\ ev.res = "Ok"
    /\ Cardinality(Members) = 2
    /\ active.connected_stations[ev.id] = ForeignAddr
    /\ Len(active.send_queue) = 1
    /\ active.send_queue[1].addr = ForeignAddr
    /\ active.send_queue[1].packet.content.type = "TokenPass"
    /\ IsSome(active.token_passer.curr_token)
    /\ active.token_passer.state = Some(TokenState(ev.id, 0))

\* C22: the monitor's current_token has a header signed with the monitor's
\* own key, and so has every token the monitor sends to a member.
CurrentTokenSignedByMonitor ==
    /\ IsSome(active.token_passer.curr_token) =>
          Unwrap(active.token_passer.curr_token).header.key = MonitorAddr
    /\ \A i \in 1..Len(active.send_queue) :
          active.send_queue[i].packet.content.type = "TokenPass" =>
             Unwrap(active.send_queue[i].packet.content.token).header.key
                = MonitorAddr

\* The step is a call of recv_next by the station ev'.id, which had a packet
\* queued.
RecvNextStep ==
    /\ ev'.op = "recv_next"
    /\ passive[ev'.id].recv_queue /= <<>>

\* C23: connect(addr, pw) enqueues one JoinRequest(pw) to addr and makes the
\* station Pending(addr); a Pending(addr) station becomes Connected(id, addr)
\* on JoinReply(Confirm(id)), stays Pending(addr) with FailedJoinAttempt on
\* JoinReply(Deny), and stays as it is with NotConnected on any other packet.
PassiveAdmission ==
    [][/\ ev'.op = "connect" =>
             LET st == passive[ev'.id]
                 n == Len(st.send_queue)
             IN  /\ ev'.res = "Ok"
                 /\ passive'[ev'.id].conn_mode = Pending(MonitorAddr)
                 /\ Len(passive'[ev'.id].send_queue) = n + 1
                 /\ SubSeq(passive'[ev'.id].send_queue, 1, n) = st.send_queue
                 /\ passive'[ev'.id].send_queue[n + 1].addr = MonitorAddr
                 /\ passive'[ev'.id].send_queue[n + 1].packet.content
                       \in {JoinRequest(Password), JoinRequest(WrongPassword)}
       /\ (RecvNextStep /\ passive[ev'.id].conn_mode.mode = "Pending") =>
             LET st == passive[ev'.id]
                 content == Head(st.recv_queue).packet.content
                 after == passive'[ev'.id]
             IN  /\ after.send_queue = st.send_queue
                 /\ after.curr_token = st.curr_token
                 /\ IF content.type = "JoinReply" /\ content.result = "Confirm"
                    THEN /\ ev'.res = "Ok"
                         /\ after.conn_mode =
                               Connected(content.id, st.conn_mode.addr)
                    ELSE IF content.type = "JoinReply"
                    THEN /\ ev'.res = "FailedJoinAttempt"
                         /\ after.conn_mode = st.conn_mode
                    ELSE /\ ev'.res = "NotConnected"
                         /\ after.conn_mode = st.conn_mode]_vars

\* C23 witness: a member connected again and, Pending, was handed the token:
\* recv_next answered NotConnected and the station is Pending still.
TokenRefusedWhilePending ==
    /\ ev.op = "recv_next" /\ ev.res = "NotConnected"
    /\ ev.id \in Members
    /\ passive[ev.id].conn_mode = Pending(MonitorAddr)
    /\ active.token_passer.state = Some(TokenState(ev.id, 0))
    /\ passive[ev.id].curr_token = None

\* What recv_next must leave alone when it rejects a packet.
StationKept(p) ==
    /\ passive'[p].curr_token = passive[p].curr_token
    /\ passive'[p].cached_frames = passive[p].cached_frames
    /\ passive'[p].conn_mode = passive[p].conn_mode
    /\ passive'[p].send_queue = passive[p].send_queue

\* C24: a Connected(expected_id, expected_addr) station rejects a packet from
\* another address with InvalidSocketAddress and a packet from expected_addr
\* under another id with InvalidWorkStationId; the held token, the staging
\* buffer and the connection state stay as they were.
ConnectedLinkChecked ==
    [][(RecvNextStep /\ passive[ev'.id].conn_mode.mode = "Connected") =>
          LET st == passive[ev'.id]
              qp == Head(st.recv_queue)
          IN  /\ qp.addr /= st.conn_mode.addr =>
                    (ev'.res = "InvalidSocketAddress" /\ StationKept(ev'.id))
              /\ (qp.addr = st.conn_mode.addr
                  /\ qp.packet.header.val /= st.conn_mode.id) =>
                    (ev'.res = "InvalidWorkStationId" /\ StationKept(ev'.id))]_vars

\* C24 witness: a station was confirmed by the host outside the ring under
\* that host's id; the monitor's token, from the expected address but under
\* the monitor's id, was rejected and the staged frame is staged still.
MonitorTokenRejected ==
    /\ ev.op = "recv_next" /\ ev.res = "InvalidWorkStationId"
    /\ passive[ev.id].conn_mode = Connected(ForeignId, MonitorAddr)
    /\ passive[ev.id].curr_token = None
    /\ passive[ev.id].cached_frames /= <<>>
    /\ active.token_passer.pass_mode = "Passed"

\* C25: connect called by a station that is Connected returns
\* AlreadyConnected and leaves the station Connected to the same monitor id
\* and address.
DuplicateConnectRefused ==
    [][(ev'.op = "connect" /\ passive[ev'.id].conn_mode.mode = "Connected") =>
          /\ ev'.res = "AlreadyConnected"
          /\ passive'[ev'.id].conn_mode = passive[ev'.id].conn_mode]_vars

\* The station ev'.id, Connected, takes a TokenPass of its monitor off its
\* queue.
TokenArrives ==
    /\ RecvNextStep
    /\ passive[ev'.id].conn_mode.mode = "Connected"
    /\ Head(passive[ev'.id].recv_queue).addr = passive[ev'.id].conn_mode.addr
    /\ Head(passive[ev'.id].recv_queue).packet.header.val
          = passive[ev'.id].conn_mode.id
    /\ Head(passive[ev'.id].recv_queue).packet.content.type = "TokenPass"

\* C26: when a Connected station receives a TokenPass, the token it stores
\* has the received frames followed by the staged frames in staging order,
\* the staging buffer is empty afterwards, and a token held before is
\* replaced by the new one.
StagedFramesAppended ==
    [][TokenArrives =>
          LET st == passive[ev'.id]
              token == Unwrap(Head(st.recv_queue).packet.content.token)
              stored == Unwrap(passive'[ev'.id].curr_token)
              n == Len(token.frames)
          IN  /\ ev'.res = "Ok"
              /\ IsSome(passive'[ev'.id].curr_token)
              /\ stored.header = token.header
              /\ Len(stored.frames) = n + Len(st.cached_frames)
              /\ \A i \in 1..n : stored.frames[i] = token.frames[i]
              /\ \A i \in 1..Len(st.cached_frames) :
                    stored.frames[n + i] = st.cached_frames[i]
              /\ passive'[ev'.id].cached_frames = <<>>]_vars

\* C26 witness: a station that had staged two frames has received a token
\* and holds it with the two frames in staging order.
TwoFramesInStagingOrder ==
    /\ ev.op = "recv_next" /\ ev.res = "Ok"
    /\ IsSome(passive[ev.id].curr_token)
    /\ Unwrap(passive[ev.id].curr_token).frames
          = <<TokenFrame(ev.id, DataFrame(0)), TokenFrame(ev.id, DataFrame(1))>>
    /\ passive[ev.id].cached_frames = <<>>

\* A station that holds a token has another one waiting in its queue.
TokenAboutToBeReplaced ==
    \E p \in Stations :
        /\ IsSome(passive[p].curr_token)
        /\ passive[p].cached_frames /= <<>>
        /\ passive[p].recv_queue /= <<>>
        /\ Head(passive[p].recv_queue).packet.content.type = "TokenPass"

\* C27: pass_on_token returns TokenPending and emits nothing when no token
\* is held; when a token is held it enqueues exactly one TokenPass with that
\* token for the monitor and leaves the slot empty.
PassOnEmitsHeldToken ==
    [][ev'.op = "pass_on_token" =>
          LET st == passive[ev'.id]
              after == passive'[ev'.id]
              n == Len(st.send_queue)
          IN  IF ~IsSome(st.curr_token)
              THEN ev'.res = "TokenPending" /\ after = st
              ELSE /\ after.curr_token = None
                   /\ Len(after.send_queue) = n + 1
                   /\ SubSeq(after.send_queue, 1, n) = st.send_queue
                   /\ after.send_queue[n + 1].addr = MonitorAddr
                   /\ after.send_queue[n + 1].packet.content
                         = TokenPass(Unwrap(st.curr_token))]_vars

\* C28: alice appends a frame while she holds the token and passes the
\* token on; the token bob receives next has that frame.  (Alice appends
\* only while she holds a token, so once she holds none the frame she
\* appended last has been passed on.)
FrameReachesBob ==
    (/\ ev.op = "recv_next" /\ ev.res = "Ok" /\ ev.id = Bob
     /\ IsSome(passive[Bob].curr_token)
     /\ frames_staged > 0
     /\ ~IsSome(passive[Alice].curr_token)) =>
        \E i \in 1..Len(Unwrap(passive[Bob].curr_token).frames) :
            Unwrap(passive[Bob].curr_token).frames[i]
                = TokenFrame(Alice, DataFrame(frames_staged - 1))

\* C29: shutdown, called by a station that is Offline, Pending or Connected,
\* ends with running false and the station Offline; a Connected station
\* first enqueues exactly one Leave for the monitor.
ShutdownAlwaysStops ==
    [][ev'.op = "shutdown" =>
          LET st == passive[ev'.id]
              after == passive'[ev'.id]
              n == Len(st.send_queue)
          IN  /\ ~after.running
              /\ after.conn_mode = Offline
              /\ IF st.conn_mode.mode = "Connected"
                 THEN /\ Len(after.send_queue) = n + 1
                      /\ SubSeq(after.send_queue, 1, n) = st.send_queue
                      /\ after.send_queue[n + 1].addr = st.conn_mode.addr
                      /\ after.send_queue[n + 1].packet.content = Leave
                 ELSE after.send_queue = st.send_queue]_vars

\* The same for a station that is Connected when it calls shutdown.
ConnectedShutdownStops ==
    [][(ev'.op = "shutdown" /\ passive[ev'.id].conn_mode.mode = "Connected") =>
          LET st == passive[ev'.id]
              after == passive'[ev'.id]
              n == Len(st.send_queue)
          IN  /\ ~after.running
              /\ after.conn_mode = Offline
              /\ Len(after.send_queue) = n + 1
              /\ after.send_queue[n + 1].addr = st.conn_mode.addr
              /\ after.send_queue[n + 1].packet.content = Leave]_vars

\* C30: the monitor's sender task stops only with running false and the
\* send queue empty: every packet enqueued before running was cleared has
\* had its send attempt.
SenderDrainsBeforeExit ==
    sender = "stopped" => (~active.running /\ active.send_queue = <<>>)

\* C31: once running has been cleared the monitor's receiver task
\* terminates, whether or not another datagram arrives and whether or not
\* what arrives is a packet.
ReceiverStops == (~active.running) ~> (receiver.pc = "stopped")

\* ================================================================ the codec
\* serialize.rs, id.rs, signature.rs, token.rs and packet.rs write values to
\* bytes and read them back.  A buffer is a sequence of bytes 0..255 and a
\* cursor is a buffer with a position.  A read returns its outcome, the value
\* read and the position after it; the outcome is "Ok", the error returned
\* ("Io" when the buffer ends early) or "Panic" when the code aborts.  A u8
\* is written as a one-byte buffer, a byte array as itself, and a u64 is kept
\* as its eight bytes.

MaxName == 2
MaxPayload == 1
MaxWire == 2

Ok(val, pos) == [res |-> "Ok", val |-> val, pos |-> pos]
Err(kind) == [res |-> kind, val |-> <<>>, pos |-> 0]

ReadU8(buf, pos) ==
    IF pos + 1 <= Len(buf) THEN Ok(buf[pos + 1], pos + 1) ELSE Err("Io")

WriteU16(n) == <<(n % 65536) \div 256, n % 256>>
ReadU16(buf, pos) ==
    IF pos + 2 <= Len(buf)
    THEN Ok(buf[pos + 1] * 256 + buf[pos + 2], pos + 2)
    ELSE Err("Io")

ReadByteArr(n, buf, pos) ==
    IF pos + n <= Len(buf)
    THEN Ok(SubSeq(buf, pos + 1, pos + n), pos + n)
    ELSE Err("Io")

WriteByteVec(vec) == WriteU16(Len(vec)) \o vec

\* read_byte_vec reads the length and fills a vector created with that
\* capacity: the vector's length is zero, so read_exact fills nothing and
\* the cursor stays where the length ended.
ReadByteVec(buf, pos) ==
    LET AfterLen(len) == IF len.res /= "Ok" THEN len ELSE Ok(<<>>, len.pos)
    IN  AfterLen(ReadU16(buf, pos))

\* String::from_utf8(..).unwrap(): bytes below 128 are text.
FromUtf8Unwrap(vec) ==
    IF vec.res /= "Ok" THEN vec
    ELSE IF \A i \in 1..Len(vec.val) : vec.val[i] < 128 THEN vec
    ELSE Err("Panic")

ReadString(buf, pos) == FromUtf8Unwrap(ReadByteVec(buf, pos))

ReadSockAddr(buf, pos) ==
    LET AfterPort(type, ip, port) ==
            IF port.res /= "Ok" THEN port
            ELSE Ok([v6 |-> type.val = 1, ip |-> ip.val, port |-> port.val],
                    port.pos)
        AfterIp(type, ip) ==
            IF ip.res /= "Ok" THEN ip
            ELSE AfterPort(type, ip, ReadU16(buf, ip.pos))
        AfterType(type) ==
            IF type.res /= "Ok" THEN type
            ELSE IF type.val \notin {0, 1} THEN Err("Panic")
            ELSE AfterIp(type, ReadByteArr(IF type.val = 0 THEN 4 ELSE 16,
                                           buf, type.pos))
    IN  AfterType(ReadU8(buf, pos))

\* ---------------------------------------------------------------- id.rs
\* A station id on the wire is its name; a packet header is its source id.
WriteWorkStationId(id) == WriteByteVec(id)
ReadWorkStationId(buf, pos) == ReadString(buf, pos)

\* --------------------------------------------------------- signature.rs
\* The ed25519 public key and the signature are one byte each: the key is
\* the keypair's number and the signature binds the key to the bytes signed.
RECURSIVE SumBytes(_)
SumBytes(bytes) ==
    IF bytes = <<>> THEN 0 ELSE Head(bytes) + SumBytes(Tail(bytes))

Sign(keypair, bytes) == (keypair + 7 * Len(bytes) + SumBytes(bytes)) % 256

SignedNew(keypair, val, val_bytes) ==
    [key |-> keypair, signature |-> Sign(keypair, val_bytes),
     val |-> val, val_bytes |-> val_bytes]

SignedVerify(s) == s.signature = Sign(s.key, s.val_bytes)

WriteSigned(s) == <<s.key, s.signature>> \o WriteByteVec(s.val_bytes)

\* token.rs: the token header, the value a token's envelope signs.
WriteTokenHeader(h) == WriteWorkStationId(h.origin) \o h.timestamp

ReadTokenHeader(buf, pos) ==
    LET AfterTimestamp(origin, timestamp) ==
            IF timestamp.res /= "Ok" THEN timestamp
            ELSE Ok([origin |-> origin.val, timestamp |-> timestamp.val],
                    timestamp.pos)
        AfterOrigin(origin) ==
            IF origin.res /= "Ok" THEN origin
            ELSE AfterTimestamp(origin, ReadByteArr(8, buf, origin.pos))
    IN  AfterOrigin(ReadWorkStationId(buf, pos))

\* Signed::read reads the inner value from the bytes read_byte_vec returned.
\* T is PacketHeader, read as its source id, or TokenHeader.
ReadSigned(T, buf, pos) ==
    LET AfterVal(key, signature, val_bytes, val) ==
            IF val.res /= "Ok" THEN val
            ELSE Ok([key |-> key.val[1], signature |-> signature.val[1],
                     val |-> val.val, val_bytes |-> val_bytes.val],
                    val_bytes.pos)
        AfterValBytes(key, signature, val_bytes) ==
            IF val_bytes.res /= "Ok" THEN val_bytes
            ELSE AfterVal(key, signature, val_bytes,
                          IF T = "TokenHeader"
                          THEN ReadTokenHeader(val_bytes.val, 0)
                          ELSE ReadWorkStationId(val_bytes.val, 0))
        AfterSignature(key, signature) ==
            IF signature.res /= "Ok" THEN signature
            ELSE AfterValBytes(key, signature,
                               ReadByteVec(buf, signature.pos))
        AfterKey(key) ==
            IF key.res /= "Ok" THEN key
            ELSE AfterSignature(key, ReadByteArr(1, buf, key.pos))
    IN  AfterKey(ReadByteArr(1, buf, pos))

\* -------------------------------------------------------- token.rs, wire
WriteTokenSendMode(m) ==
    IF m.mode = "Unicast" THEN <<0>> \o WriteWorkStationId(m.dest)
    ELSE <<1>>

ReadTokenSendMode(buf, pos) ==
    LET AfterDest(dest) ==
            IF dest.res /= "Ok" THEN dest
            ELSE Ok([mode |-> "Unicast", dest |-> dest.val], dest.pos)
        AfterType(type) ==
            IF type.res /= "Ok" THEN type
            ELSE IF type.val = 0
                 THEN AfterDest(ReadWorkStationId(buf, type.pos))
            ELSE IF type.val = 1 THEN Ok([mode |-> "Broadcast"], type.pos)
            ELSE Err("Panic")
    IN  AfterType(ReadU8(buf, pos))

WriteTokenFrameId(id) == WriteWorkStationId(id.source) \o id.timestamp

ReadTokenFrameId(buf, pos) ==
    LET AfterTimestamp(source, timestamp) ==
            IF timestamp.res /= "Ok" THEN timestamp
            ELSE Ok([source |-> source.val, timestamp |-> timestamp.val],
                    timestamp.pos)
        AfterSource(source) ==
            IF source.res /= "Ok" THEN source
            ELSE AfterTimestamp(source, ReadByteArr(8, buf, source.pos))
    IN  AfterSource(ReadWorkStationId(buf, pos))

WriteTokenFrameType(c) ==
    CASE c.type = "Empty" -> <<0>>
      [] c.type = "Data" ->
            <<1>> \o WriteTokenSendMode(c.send_mode) \o WriteU16(c.seq)
                \o WriteByteVec(c.payload)
      [] c.type = "DataReceived" ->
            <<2>> \o WriteWorkStationId(c.source) \o WriteU16(c.seq)

ReadTokenFrameType(buf, pos) ==
    LET AfterPayload(send_mode, seq, payload) ==
            IF payload.res /= "Ok" THEN payload
            ELSE Ok([type |-> "Data", send_mode |-> send_mode.val,
                     seq |-> seq.val, payload |-> payload.val],
                    payload.pos)
        AfterDataSeq(send_mode, seq) ==
            IF seq.res /= "Ok" THEN seq
            ELSE AfterPayload(send_mode, seq, ReadByteVec(buf, seq.pos))
        AfterSendMode(send_mode) ==
            IF send_mode.res /= "Ok" THEN send_mode
            ELSE AfterDataSeq(send_mode, ReadU16(buf, send_mode.pos))
        AfterAckSeq(source, seq) ==
            IF seq.res /= "Ok" THEN seq
            ELSE Ok([type |-> "DataReceived", source |-> source.val,
                     seq |-> seq.val], seq.pos)
        AfterSource(source) ==
            IF source.res /= "Ok" THEN source
            ELSE AfterAckSeq(source, ReadU16(buf, source.pos))
        AfterType(type) ==
            IF type.res /= "Ok" THEN type
            ELSE IF type.val = 0 THEN Ok([type |-> "Empty"], type.pos)
            ELSE IF type.val = 1
                 THEN AfterSendMode(ReadTokenSendMode(buf, type.pos))
            ELSE IF type.val = 2
                 THEN AfterSource(ReadWorkStationId(buf, type.pos))
            ELSE Err("Panic")
    IN  AfterType(ReadU8(buf, pos))

WriteTokenFrame(f) == WriteTokenFrameId(f.id) \o WriteTokenFrameType(f.content)

ReadTokenFrame(buf, pos) ==
    LET AfterContent(id, content) ==
            IF content.res /= "Ok" THEN content
            ELSE Ok([id |-> id.val, content |-> content.val], content.pos)
        AfterId(id) ==
            IF id.res /= "Ok" THEN id
            ELSE AfterContent(id, ReadTokenFrameType(buf, id.pos))
    IN  AfterId(ReadTokenFrameId(buf, pos))

\* write_vec and read_vec of a token's frames: a u32 count below 65536, then
\* the frames.  A larger count read back runs into the end of the buffer.
RECURSIVE WriteFrames(_)
WriteFrames(frames) ==
    IF frames = <<>> THEN <<>>
    ELSE WriteTokenFrame(Head(frames)) \o WriteFrames(Tail(frames))

WriteVec(frames) == <<0, 0>> \o WriteU16(Len(frames)) \o WriteFrames(frames)

RECURSIVE ReadFrames(_, _, _, _)
ReadFrames(n, vec, buf, pos) ==
    LET AfterFrame(frame) ==
            IF frame.res /= "Ok" THEN frame
            ELSE ReadFrames(n - 1, Append(vec, frame.val), buf, frame.pos)
    IN  IF n = 0 THEN Ok(vec, pos)
        ELSE AfterFrame(ReadTokenFrame(buf, pos))

ReadVec(buf, pos) ==
    LET AfterLow(high, low) ==
            IF low.res /= "Ok" THEN low
            ELSE ReadFrames(IF high.val = 0 THEN low.val ELSE 65536, <<>>,
                            buf, low.pos)
        AfterHigh(high) ==
            IF high.res /= "Ok" THEN high
            ELSE AfterLow(high, ReadU16(buf, high.pos))
    IN  AfterHigh(ReadU16(buf, pos))

WriteToken(t) == WriteSigned(t.header) \o WriteVec(t.frames)

ReadToken(buf, pos) ==
    LET AfterFrames(header, frames) ==
            IF frames.res /= "Ok" THEN frames
            ELSE Ok([header |-> header.val, frames |-> frames.val],
                    frames.pos)
        AfterHeader(header) ==
            IF header.res /= "Ok" THEN header
            ELSE AfterFrames(header, ReadVec(buf, header.pos))
    IN  AfterHeader(ReadSigned("TokenHeader", buf, pos))

\* ------------------------------------------------------- packet.rs, wire
WriteJoinAnswerResult(r) ==
    IF r.kind = "Confirm" THEN <<0>> \o WriteWorkStationId(r.id)
    ELSE <<1>> \o WriteByteVec(r.reason)

ReadJoinAnswerResult(buf, pos) ==
    LET AfterId(id) ==
            IF id.res /= "Ok" THEN id
            ELSE Ok([kind |-> "Confirm", id |-> id.val], id.pos)
        AfterReason(reason) ==
            IF reason.res /= "Ok" THEN reason
            ELSE Ok([kind |-> "Deny", reason |-> reason.val], reason.pos)
        AfterType(type) ==
            IF type.res /= "Ok" THEN type
            ELSE IF type.val = 0
                 THEN AfterId(ReadWorkStationId(buf, type.pos))
            ELSE IF type.val = 1
                 THEN AfterReason(FromUtf8Unwrap(ReadByteVec(buf, type.pos)))
            ELSE Err("Panic")
    IN  AfterType(ReadU8(buf, pos))

WritePacketType(c) ==
    CASE c.type = "JoinRequest" -> <<0>> \o WriteByteVec(c.pw)
      [] c.type = "JoinReply" -> <<1>> \o WriteJoinAnswerResult(c.result)
      [] c.type = "TokenPass" -> <<2>> \o WriteToken(c.token)
      [] c.type = "Leave" -> <<3>>

ReadPacketType(buf, pos) ==
    LET AfterPw(pw) ==
            IF pw.res /= "Ok" THEN pw
            ELSE Ok([type |-> "JoinRequest", pw |-> pw.val], pw.pos)
        AfterResult(result) ==
            IF result.res /= "Ok" THEN result
            ELSE Ok([type |-> "JoinReply", result |-> result.val],
                    result.pos)
        AfterToken(token) ==
            IF token.res /= "Ok" THEN token
            ELSE Ok([type |-> "TokenPass", token |-> token.val], token.pos)
        AfterType(type) ==
            IF type.res /= "Ok" THEN type
            ELSE IF type.val = 0 THEN AfterPw(ReadString(buf, type.pos))
            ELSE IF type.val = 1
                 THEN AfterResult(ReadJoinAnswerResult(buf, type.pos))
            ELSE IF type.val = 2 THEN AfterToken(ReadToken(buf, type.pos))
            ELSE IF type.val = 3 THEN Ok([type |-> "Leave"], type.pos)
            ELSE Err("Panic")
    IN  AfterType(ReadU8(buf, pos))

WritePacket(p) == WriteSigned(p.header) \o WritePacketType(p.content)

ReadPacket(buf, pos) ==
    LET AfterContent(header, content) ==
            IF content.res /= "Ok" THEN content
            ELSE Ok([header |-> header.val, content |-> content.val],
                    content.pos)
        AfterHeader(header) ==
            IF header.res /= "Ok" THEN header
            ELSE AfterContent(header, ReadPacketType(buf, header.pos))
    IN  AfterHeader(ReadSigned("PacketHeader", buf, pos))


\* ------------------------------------------------ values written and read
RECURSIVE SeqsUpTo(_, _)
SeqsUpTo(S, n) ==
    IF n = 0 THEN {<<>>}
    ELSE LET shorter == SeqsUpTo(S, n - 1)
         IN  shorter \cup {Append(s, x) : s \in shorter, x \in S}

Names == SeqsUpTo({97, 98}, MaxName)
ShortNames == SeqsUpTo({97}, 1)
Keypairs == {1, 2}
Stamp == <<0, 0, 0, 0, 0, 0, 0, 5>>

SignedHeaders == {SignedNew(k, n, WriteWorkStationId(n)) : k \in Keypairs, n \in Names}

FrameContents ==
    {[type |-> "Empty"]}
        \cup {[type |-> "Data", send_mode |-> m, seq |-> 0, payload |-> p] :
                m \in {[mode |-> "Broadcast"],
                       [mode |-> "Unicast", dest |-> <<97>>]},
                p \in SeqsUpTo({0, 200}, MaxPayload)}
        \cup {[type |-> "DataReceived", source |-> n, seq |-> 1] : n \in ShortNames}

TokenFrames ==
    {[id |-> [source |-> n, timestamp |-> Stamp], content |-> c] :
        n \in ShortNames, c \in FrameContents}

Tokens ==
    {[header |-> SignedNew(1, [origin |-> n, timestamp |-> Stamp],
                           WriteTokenHeader([origin |-> n, timestamp |-> Stamp])),
      frames |-> fs] :
        n \in ShortNames,
        fs \in {<<>>} \cup {<<f>> : f \in TokenFrames}}

PacketContents ==
    {[type |-> "JoinRequest", pw |-> n] : n \in ShortNames}
        \cup {[type |-> "JoinReply", result |-> [kind |-> "Confirm", id |-> n]] :
                n \in ShortNames}
        \cup {[type |-> "JoinReply", result |-> [kind |-> "Deny", reason |-> n]] :
                n \in ShortNames}
        \cup {[type |-> "TokenPass", token |-> t] :
                t \in {u \in Tokens : u.frames = <<>>}}
        \cup {[type |-> "Leave"]}

Packets ==
    {[header |-> SignedNew(1, n, WriteWorkStationId(n)), content |-> c] :
        n \in ShortNames, c \in PacketContents}

Kinds ==
    {"WorkStationId", "PacketHeader", "Signed", "TokenFrame", "Token", "Packet"}

ValuesOf(kind) ==
    CASE kind \in {"WorkStationId", "PacketHeader"} -> Names
      [] kind = "Signed" -> SignedHeaders
      [] kind = "TokenFrame" -> TokenFrames
      [] kind = "Token" -> Tokens
      [] kind = "Packet" -> Packets

\* Bytes a host can put into a datagram, and what the receiver reads there.
WireKinds ==
    {"Packet", "PacketType", "JoinAnswerResult", "TokenFrameType",
     "TokenSendMode", "SocketAddr", "String"}

WireBytes == SeqsUpTo({0, 1, 2, 3, 4, 255}, MaxWire)

\* Serializer::serialize: a fresh buffer the value is written to.
Serialize(kind, value) ==
    CASE kind \in {"WorkStationId", "PacketHeader"} -> WriteWorkStationId(value)
      [] kind = "Signed" -> WriteSigned(value)
      [] kind = "TokenFrame" -> WriteTokenFrame(value)
      [] kind = "Token" -> WriteToken(value)
      [] kind = "Packet" -> WritePacket(value)

\* Serializer::deserialize: a cursor at the start of the bytes.
Deserialize(kind, buf) ==
    CASE kind \in {"WorkStationId", "PacketHeader"} -> ReadWorkStationId(buf, 0)
      [] kind = "Signed" -> ReadSigned("PacketHeader", buf, 0)
      [] kind = "TokenFrame" -> ReadTokenFrame(buf, 0)
      [] kind = "Token" -> ReadToken(buf, 0)
      [] kind = "Packet" -> ReadPacket(buf, 0)
      [] kind = "PacketType" -> ReadPacketType(buf, 0)
      [] kind = "JoinAnswerResult" -> ReadJoinAnswerResult(buf, 0)
      [] kind = "TokenFrameType" -> ReadTokenFrameType(buf, 0)
      [] kind = "TokenSendMode" -> ReadTokenSendMode(buf, 0)
      [] kind = "SocketAddr" -> ReadSockAddr(buf, 0)
      [] kind = "String" -> ReadString(buf, 0)

CodecInit ==
    /\ active = Host
    /\ passive = [p \in Stations |-> NewPassiveStation]
    /\ hash_order = CHOOSE h \in Perms(Stations) : TRUE
    /\ receiver = Listening
    /\ sender = "try_recv"
    /\ insertion = <<>>
    /\ passes = [p \in Stations |-> 0]
    /\ foreign_sent = 0
    /\ frames_staged = 0
    /\ draining = FALSE
    /\ ev = Event("host", "Ok", MonitorId)
    /\ \/ \E kind \in Kinds : \E value \in ValuesOf(kind) :
            codec = [phase |-> "value", origin |-> "value", kind |-> kind,
                     value |-> value, bytes |-> <<>>, result |-> Err("Unread")]
       \/ \E kind \in WireKinds : \E bytes \in WireBytes :
            codec = [phase |-> "bytes", origin |-> "wire", kind |-> kind,
                     value |-> <<>>, bytes |-> bytes, result |-> Err("Unread")]

CodecWrite ==
    /\ codec.phase = "value"
    /\ codec' = [codec EXCEPT !.phase = "bytes",
                              !.bytes = Serialize(codec.kind, codec.value)]
    /\ UNCHANGED <<active, passive, hash_order, insertion, passes,
                   foreign_sent, frames_staged, draining, sender, receiver, ev>>

CodecRead ==
    /\ codec.phase = "bytes"
    /\ codec' = [codec EXCEPT !.phase = "read",
                              !.result = Deserialize(codec.kind, codec.bytes)]
    /\ UNCHANGED <<active, passive, hash_order, insertion, passes,
                   foreign_sent, frames_staged, draining, sender, receiver, ev>>

CodecNext == CodecWrite \/ CodecRead

CodecSpec == CodecInit /\ [][CodecNext]_vars

\* C32: a value written to bytes and read back is read without error and
\* equals the value written, and a signed value read back still verifies.
RoundTrip ==
    (codec.phase = "read" /\ codec.origin = "value") =>
        /\ codec.result.res = "Ok"
        /\ codec.result.val = codec.value
        /\ codec.kind = "Signed" => SignedVerify(codec.result.val)


\* C33: reading bytes never aborts the reader: whatever the bytes are, an
\* out-of-range discriminator or invalid text included, the read returns.
DecodingNeverPanics == codec.phase = "read" => codec.result.res /= "Panic"


\* ================================================================ the passer
\* pass.rs under every input recv_token can get from a member: besides the
\* tokens the stations pass on, a member's host sends a TokenPass of its own
\* making from the member's address, with a token copied from the monitor's
\* or with a header whose signature does not verify, at any time.
MemberTokens ==
    {GenerateToken, [GenerateToken EXCEPT !.header = Corrupted(@)]}

RogueMember(p) ==
    /\ Quiet
    /\ foreign_sent < MaxForeign
    /\ Len(active.recv_queue) < MaxQueue
    /\ \E token \in MemberTokens :
          active' = [active EXCEPT !.recv_queue =
                        Append(@, QueuedPacket(Packet(Signed(p, PacketHeader(p)),
                                                      TokenPass(token)), p))]
    /\ foreign_sent' = foreign_sent + 1
    /\ ev' = Internal
    /\ UNCHANGED <<passive, hash_order, codec, receiver, sender, insertion,
                   passes, frames_staged, draining>>

PasserNext ==
    \/ RecvAll
    \/ Poll
    \/ Tick
    \/ \E p \in Stations : PassOn(p)
    \/ \E p \in Stations : Recv(p)
    \/ ActiveSend
    \/ \E p \in Stations : PassiveSend(p)
    \/ \E p \in Stations : RogueMember(p)

PasserSpec == RingInit /\ [][PasserNext]_vars


\* recv_all is about to hand the head of the queue to recv_token: a TokenPass
\* whose envelope verifies, from a member, from the member's address.
RecvTokenCall ==
    /\ active.recv_queue /= <<>>
    /\ ev'.op = "TokenPass"
    /\ NextPacket.packet.content.type = "TokenPass"
    /\ NextPacket.packet.header.signature =
          <<NextPacket.packet.header.key, NextPacket.packet.header.val>>
    /\ GetStationAddr(active, NextPacket.packet.header.val) = Some(NextPacket.addr)

\* C34: recv_token replaces the current token with the received one only
\* when a token is in flight, the time since it was sent is within
\* max_passover_time, the token header's signature verifies and the sender
\* is the expected holder; otherwise it returns InvalidToken and the current
\* token is unchanged.
RecvTokenReplacesOnlyValid ==
    [][RecvTokenCall =>
        LET tp == active.token_passer
            token == Unwrap(NextPacket.packet.content.token)
            valid == /\ tp.state /= <<>>
                     /\ tp.state[1].elapsed <= MaxPassoverTime
                     /\ token.header.signature =
                           <<token.header.key, token.header.val>>
                     /\ NextPacket.packet.header.val = tp.state[1].id
        IN  IF valid
            THEN /\ active'.token_passer.curr_token = Some(token)
                 /\ ev'.res = "Ok"
            ELSE /\ active'.token_passer.curr_token = tp.curr_token
                 /\ ev'.res = "InvalidToken"]_vars

\* The expected holder's token came back in time and was refused: its
\* header did not verify.
UnverifiedTokenRefused ==
    /\ ev.op = "TokenPass"
    /\ ev.res = "InvalidToken"
    /\ active.token_passer.state /= <<>>
    /\ active.token_passer.state[1].elapsed <= MaxPassoverTime
    /\ active.token_passer.state[1].id = ev.id


\* ------------------------------------------------ recv_token on any passer
\* The passers the monitor can have: nothing in flight before the first
\* pass, then a token in flight to some id, sent any time ago, with any
\* members ticked off.
PasserStates ==
    {tp \in [curr_token : {None, Some(GenerateToken)},
             state : {None} \cup {Some(TokenState(id, e)) :
                                    id \in Stations, e \in 0..(MaxPassoverTime + 1)},
             pass_mode : {"Idle", "Passed", "Received"},
             station_status : UNION {[D -> BOOLEAN] : D \in SUBSET Stations}] :
        /\ tp.state = None => tp.pass_mode /= "Passed"
        /\ tp.state /= None => tp.pass_mode /= "Idle"}

RecvTokenInit ==
    /\ \E tp \in PasserStates : active = [Host EXCEPT !.token_passer = tp]
    /\ passive = [p \in Stations |-> NewPassiveStation]
    /\ hash_order = CHOOSE h \in Perms(Stations) : TRUE
    /\ codec = NoCodec
    /\ receiver = Listening
    /\ sender = "try_recv"
    /\ insertion = <<>>
    /\ passes = [p \in Stations |-> 0]
    /\ foreign_sent = 0
    /\ frames_staged = 0
    /\ draining = FALSE
    /\ ev = Event("host", "Ok", MonitorId)

ApplyRecvToken ==
    /\ \E new_token \in MemberTokens, sender_id \in Stations \cup {ForeignId} :
          LET r == RecvToken(active.token_passer, new_token, sender_id)
          IN  /\ active' = [active EXCEPT !.token_passer = r.tp]
              /\ ev' = Event("recv_token", r.res, sender_id)
    /\ UNCHANGED <<passive, hash_order, codec, receiver, sender, insertion,
                   passes, foreign_sent, frames_staged, draining>>

RecvTokenSpec == RecvTokenInit /\ [][ApplyRecvToken]_vars

\* C35: recv_token from a sender that is not in the status table returns
\* InvalidToken and changes nothing; from a sender in the table it ticks the
\* sender off and sets the mode to Received, whether or not the token is
\* valid.
RecvTokenMarksMember ==
    [][ev'.op = "recv_token" =>
        IF ev'.id \in DOMAIN active.token_passer.station_status
        THEN /\ active'.token_passer.station_status[ev'.id]
             /\ active'.token_passer.pass_mode = "Received"
        ELSE /\ ev'.res = "InvalidToken"
             /\ active' = active]_vars

\* A member's token was refused, and the member is ticked off all the same.
RefusedSenderTickedOff ==
    /\ ev.op = "recv_token"
    /\ ev.res = "InvalidToken"
    /\ ev.id \in DOMAIN active.token_passer.station_status
    /\ active.token_passer.station_status[ev.id]
    /\ active.token_passer.pass_mode = "Received"
    /\ active.token_passer.state = None


\* C36: the passer's mode goes from Passed to Received only through a
\* TokenPass whose sender is the expected holder of the token in flight, and
\* it never returns to Idle once a token has been passed.
ModeFollowsExpectedHolder ==
    [][/\ (active.token_passer.pass_mode = "Passed"
             /\ active'.token_passer.pass_mode = "Received") =>
            /\ ev'.op = "TokenPass"
            /\ ev'.id = active.token_passer.state[1].id
       /\ active.token_passer.pass_mode /= "Idle" =>
            active'.token_passer.pass_mode /= "Idle"]_vars


\* The settled ring with time passing and datagrams lost, every station
\* passing its token on when it likes.
LossySpec == RingInit /\ [][LossyNext]_vars

\* C37: poll_token_pass emits a new TokenPass while the previous holder is
\* still within its time limit only if that holder's token pass has been
\* received, which ticks the holder off.
PollWaitsForHolder ==
    [][(/\ ev'.op = "poll_token_pass"
        /\ ev'.res = "Ok"
        /\ active.token_passer.state /= <<>>
        /\ active.token_passer.state[1].elapsed < MaxPassoverTime) =>
            /\ active.token_passer.state[1].id
                  \in DOMAIN active.token_passer.station_status
            /\ active.token_passer.station_status[active.token_passer.state[1].id]]_vars


\* C38: a frame staged while the station holds a token is not part of the
\* token the following pass_on_token emits: it stays in the staging buffer,
\* and the token stored at the next arrival carries it.
StagingDeferred ==
    [][/\ (ev'.op = "pass_on_token" /\ ev'.res = "Ok") =>
            LET st == passive[ev'.id]
                after == passive'[ev'.id]
                emitted == Unwrap(after.send_queue[Len(after.send_queue)]
                                      .packet.content.token)
            IN  /\ after.cached_frames = st.cached_frames
                /\ emitted = Unwrap(st.curr_token)
                /\ \A i \in 1..Len(st.cached_frames) :
                      \A j \in 1..Len(emitted.frames) :
                          emitted.frames[j] /= st.cached_frames[i]
       /\ TokenArrives =>
            LET st == passive[ev'.id]
                stored == Unwrap(passive'[ev'.id].curr_token)
            IN  \A i \in 1..Len(st.cached_frames) :
                    \E j \in 1..Len(stored.frames) :
                        stored.frames[j] = st.cached_frames[i]]_vars

\* A token with a frame was passed on while another frame, staged since the
\* token arrived, stays behind.
FrameLeftBehind ==
    /\ ev.op = "pass_on_token"
    /\ ev.res = "Ok"
    /\ passive[ev.id].cached_frames /= <<>>
    /\ passive[ev.id].send_queue /= <<>>
    /\ Len(Unwrap(Head(passive[ev.id].send_queue).packet.content.token).frames) = 1


\* C39: the passive station never loses a held token: whenever
\* pass_on_token empties the token slot it has enqueued a TokenPass with
\* that token, and whenever it returns an error the slot is unchanged.
HeldTokenNeverLost ==
    [][ev'.op = "pass_on_token" =>
          LET st == passive[ev'.id]
              after == passive'[ev'.id]
          IN  /\ (st.curr_token /= <<>> /\ after.curr_token = <<>>) =>
                    /\ Len(after.send_queue) = Len(st.send_queue) + 1
                    /\ after.send_queue[Len(after.send_queue)].packet.content.type
                          = "TokenPass"
                    /\ after.send_queue[Len(after.send_queue)].packet.content.token
                          = st.curr_token
              /\ ev'.res /= "Ok" => after.curr_token = st.curr_token]_vars


\* C40: every TokenPass the monitor enqueues is addressed to the address
\* registered at that moment for an id that is a member at that moment; a
\* station whose Leave has been handled is no member, so that no TokenPass
\* goes to it until it joins again.
TokenPassOnlyToMembers ==
    [][/\ Len(active'.send_queue) > Len(active.send_queue) =>
            LET qp == active'.send_queue[Len(active'.send_queue)]
            IN  qp.packet.content.type = "TokenPass" =>
                  \E id \in DOMAIN active'.connected_stations :
                      /\ id \in DOMAIN active'.token_passer.station_status
                      /\ active'.connected_stations[id] = qp.addr
                      /\ active'.token_passer.state = <<[id |-> id, elapsed |-> 0]>>
       /\ (ev'.op = "Leave" /\ ev'.res = "Ok") =>
            /\ ev'.id \notin DOMAIN active'.connected_stations
            /\ ev'.id \notin DOMAIN active'.token_passer.station_status]_vars

\* A station left while it held the token; its Leave was handled, and the
\* monitor passes a token to the member that remains, at its address.
LeftHolderPassedOver ==
    /\ ev.op = "poll_token_pass"
    /\ ev.res = "Ok"
    /\ \E p \in Stations :
          /\ ~passive[p].running
          /\ passive[p].curr_token /= <<>>
          /\ p \notin DOMAIN active.connected_stations
          /\ ev.id /= p
          /\ active.send_queue /= <<>>
          /\ active.send_queue[1].addr /= p
    /\ active.send_queue[1].packet.content.type = "TokenPass"
    /\ active.send_queue[1].addr = active.connected_stations[ev.id]
    /\ active.token_passer.state = <<[id |-> ev.id, elapsed |-> 0]>>

=============================================================================
